---- MODULE Spec2Model ----
(***************************************************************************)
(* A model of pymeshmap / meshinfo: the OLSR stream reader and its two     *)
(* consumers (poller.py, OlsrData), the merge of polled node information   *)
(* with OLSR links (Poller.get_network_info), the collector's service loop *)
(* and its reconciliation with the database (collector.py).                *)
(*                                                                         *)
(* Each part has its own specification over the shared variables:          *)
(*   SpecStream   the two consumers of one OlsrData object                 *)
(*   SpecStreamFair  the same, with the event loop's fairness              *)
(***************************************************************************)
EXTENDS Integers, Sequences, FiniteSets, Bags, TLC

VARIABLES
    stream,     \* the lines the OLSR daemon sends before it closes the connection
    pos,        \* how many of them StreamReader.readline() has returned
    olsr,       \* the OlsrData object: its fields, its two queues and its lock
    pc,         \* where each consumer of olsr.nodes / olsr.links is suspended
    yielded,    \* what each LineGenerator has returned to its consumer so far
    cfg,        \* the arguments of collector.service()
    svc,        \* the local state of collector.service() and what it has done
    node_results,   \* get_network_info: the NodeResult list of _poll_nodes
    olsr_links,     \* get_network_info: the OlsrLink list drained from the stream
    info,           \* the NetworkInfo each run of the merge has returned
    db,         \* the database session: the Node and Link rows
    committed,  \* the rows as of the last commit
    clock,      \* what pendulum.now() returns next, in ticks
    phase,      \* where a cycle's reconciliation is
    polled,     \* the nodes and links the cycle's poll returned
    count,      \* the cycle's summary counters
    expire,     \* nodes_expire and links_expire, in days
    cycles,     \* the cycles begun so far
    poll,       \* _poll_nodes: its arguments, where it is, what it returned
    tasks       \* _poll_nodes: the _poll_node tasks, in the order of creation

streamVars == <<stream, pos, olsr, pc, yielded>>

serviceVars == <<cfg, svc>>

mergeVars == <<node_results, olsr_links, info>>

dbVars == <<db, committed, clock, phase, polled, count, expire, cycles>>

pollVars == <<poll, tasks>>

vars == <<streamVars, serviceVars, mergeVars, dbVars, pollVars>>

\* What the actions of one part leave alone
notStream == <<serviceVars, mergeVars, dbVars, pollVars>>

notService == <<streamVars, mergeVars, dbVars, pollVars>>

notMerge == <<streamVars, serviceVars, dbVars, pollVars>>

notDb == <<streamVars, serviceVars, mergeVars, pollVars>>

notPoll == <<streamVars, serviceVars, mergeVars, dbVars>>

(***************************************************************************)
(* Bounds of the model.                                                    *)
(***************************************************************************)
MaxLines == 3

MaxRetries == 3

MaxCycles == 4

MaxResults == 2

MaxOlsrLinks == 2

MaxRuns == 2

MaxDbCycles == 3

(***************************************************************************)
(* Small helpers.                                                          *)
(***************************************************************************)
Range(s) == {s[i] : i \in 1..Len(s)}

SeqsUpTo(S, n) == UNION {[1..k -> S] : k \in 0..n}

(***************************************************************************)
(* Addresses.  An address is a str, the sequence of its characters: the    *)
(* model's addresses are "<n>.1.1.<h>".                                    *)
(***************************************************************************)
RECURSIVE Numeral(_)
Numeral(n) ==
    LET digit == <<"0", "1", "2", "3", "4", "5", "6", "7", "8", "9">>[(n % 10) + 1]
    IN  IF n < 10 THEN <<digit>> ELSE Append(Numeral(n \div 10), digit)

Addr(n, h) == Numeral(n) \o <<".", "1", ".", "1", ".">> \o Numeral(h)

INFINITE == <<"I", "N", "F", "I", "N", "I", "T", "E">>

(***************************************************************************)
(* float(label).  A character is a string of one character; a character    *)
(* beyond ASCII, which a string of TLA+ cannot hold, is written by its     *)
(* code point ("U+0661").  A float is [kind, neg, mantissa, exponent]:     *)
(* kind is "finite", "inf" or "nan"; a finite value is the double          *)
(* mantissa * 2^exponent, the mantissa an odd natural number written as    *)
(* the sequence of its decimal digits (zero has no digits and exponent 0): *)
(* 1.0 is [finite, FALSE, <<1>>, 0], 2.5 is [finite, FALSE, <<5>>, -1].    *)
(* The grammar is that of Python's float() on a str: the blanks at both    *)
(* ends dropped, a sign, then inf, infinity or nan in any case, or         *)
(* digits[.digits][e[sign]digits] with single underscores between digits,  *)
(* a digit being any decimal digit of Unicode.  The value is the double    *)
(* nearest to the decimal value, a tie going to the even mantissa;         *)
(* infinity from 2^1024 - 2^970 on, zero up to 2^-1075.                    *)
(***************************************************************************)
Float(kind, neg, mantissa, exponent) ==
    [kind |-> kind, neg |-> neg, mantissa |-> mantissa, exponent |-> exponent]

\* A positive cost mantissa * 2^exponent
Cost(mantissa, exponent) == Float("finite", FALSE, mantissa, exponent)

\* What float() raises on text that is not a number, as a value of the
\* same shape
ValueError == Float("ValueError", FALSE, <<>>, 0)

\* The characters beyond ASCII that str.isspace() knows: float() reads them
\* as spaces
UnicodeSpaces ==
    { "U+0085", "U+00A0", "U+1680", "U+2000", "U+2001", "U+2002", "U+2003",
      "U+2004", "U+2005", "U+2006", "U+2007", "U+2008", "U+2009", "U+200A",
      "U+2028", "U+2029", "U+202F", "U+205F", "U+3000" }

\* The blanks float() drops at both ends: \t, \n, \x0b, \f, \r, the space
\* and the spaces of Unicode
Whitespace == {"\t", "\n", "", "\f", "\r", " "} \cup UnicodeSpaces

\* The decimal digits beyond ASCII (Unicode 14.0.0, that of Python 3.11),
\* a row for each script, from its zero to its nine
UnicodeDigits ==
    << <<"U+0660", "U+0661", "U+0662", "U+0663", "U+0664", "U+0665", "U+0666", "U+0667", "U+0668", "U+0669">>,
       <<"U+06F0", "U+06F1", "U+06F2", "U+06F3", "U+06F4", "U+06F5", "U+06F6", "U+06F7", "U+06F8", "U+06F9">>,
       <<"U+07C0", "U+07C1", "U+07C2", "U+07C3", "U+07C4", "U+07C5", "U+07C6", "U+07C7", "U+07C8", "U+07C9">>,
       <<"U+0966", "U+0967", "U+0968", "U+0969", "U+096A", "U+096B", "U+096C", "U+096D", "U+096E", "U+096F">>,
       <<"U+09E6", "U+09E7", "U+09E8", "U+09E9", "U+09EA", "U+09EB", "U+09EC", "U+09ED", "U+09EE", "U+09EF">>,
       <<"U+0A66", "U+0A67", "U+0A68", "U+0A69", "U+0A6A", "U+0A6B", "U+0A6C", "U+0A6D", "U+0A6E", "U+0A6F">>,
       <<"U+0AE6", "U+0AE7", "U+0AE8", "U+0AE9", "U+0AEA", "U+0AEB", "U+0AEC", "U+0AED", "U+0AEE", "U+0AEF">>,
       <<"U+0B66", "U+0B67", "U+0B68", "U+0B69", "U+0B6A", "U+0B6B", "U+0B6C", "U+0B6D", "U+0B6E", "U+0B6F">>,
       <<"U+0BE6", "U+0BE7", "U+0BE8", "U+0BE9", "U+0BEA", "U+0BEB", "U+0BEC", "U+0BED", "U+0BEE", "U+0BEF">>,
       <<"U+0C66", "U+0C67", "U+0C68", "U+0C69", "U+0C6A", "U+0C6B", "U+0C6C", "U+0C6D", "U+0C6E", "U+0C6F">>,
       <<"U+0CE6", "U+0CE7", "U+0CE8", "U+0CE9", "U+0CEA", "U+0CEB", "U+0CEC", "U+0CED", "U+0CEE", "U+0CEF">>,
       <<"U+0D66", "U+0D67", "U+0D68", "U+0D69", "U+0D6A", "U+0D6B", "U+0D6C", "U+0D6D", "U+0D6E", "U+0D6F">>,
       <<"U+0DE6", "U+0DE7", "U+0DE8", "U+0DE9", "U+0DEA", "U+0DEB", "U+0DEC", "U+0DED", "U+0DEE", "U+0DEF">>,
       <<"U+0E50", "U+0E51", "U+0E52", "U+0E53", "U+0E54", "U+0E55", "U+0E56", "U+0E57", "U+0E58", "U+0E59">>,
       <<"U+0ED0", "U+0ED1", "U+0ED2", "U+0ED3", "U+0ED4", "U+0ED5", "U+0ED6", "U+0ED7", "U+0ED8", "U+0ED9">>,
       <<"U+0F20", "U+0F21", "U+0F22", "U+0F23", "U+0F24", "U+0F25", "U+0F26", "U+0F27", "U+0F28", "U+0F29">>,
       <<"U+1040", "U+1041", "U+1042", "U+1043", "U+1044", "U+1045", "U+1046", "U+1047", "U+1048", "U+1049">>,
       <<"U+1090", "U+1091", "U+1092", "U+1093", "U+1094", "U+1095", "U+1096", "U+1097", "U+1098", "U+1099">>,
       <<"U+17E0", "U+17E1", "U+17E2", "U+17E3", "U+17E4", "U+17E5", "U+17E6", "U+17E7", "U+17E8", "U+17E9">>,
       <<"U+1810", "U+1811", "U+1812", "U+1813", "U+1814", "U+1815", "U+1816", "U+1817", "U+1818", "U+1819">>,
       <<"U+1946", "U+1947", "U+1948", "U+1949", "U+194A", "U+194B", "U+194C", "U+194D", "U+194E", "U+194F">>,
       <<"U+19D0", "U+19D1", "U+19D2", "U+19D3", "U+19D4", "U+19D5", "U+19D6", "U+19D7", "U+19D8", "U+19D9">>,
       <<"U+1A80", "U+1A81", "U+1A82", "U+1A83", "U+1A84", "U+1A85", "U+1A86", "U+1A87", "U+1A88", "U+1A89">>,
       <<"U+1A90", "U+1A91", "U+1A92", "U+1A93", "U+1A94", "U+1A95", "U+1A96", "U+1A97", "U+1A98", "U+1A99">>,
       <<"U+1B50", "U+1B51", "U+1B52", "U+1B53", "U+1B54", "U+1B55", "U+1B56", "U+1B57", "U+1B58", "U+1B59">>,
       <<"U+1BB0", "U+1BB1", "U+1BB2", "U+1BB3", "U+1BB4", "U+1BB5", "U+1BB6", "U+1BB7", "U+1BB8", "U+1BB9">>,
       <<"U+1C40", "U+1C41", "U+1C42", "U+1C43", "U+1C44", "U+1C45", "U+1C46", "U+1C47", "U+1C48", "U+1C49">>,
       <<"U+1C50", "U+1C51", "U+1C52", "U+1C53", "U+1C54", "U+1C55", "U+1C56", "U+1C57", "U+1C58", "U+1C59">>,
       <<"U+A620", "U+A621", "U+A622", "U+A623", "U+A624", "U+A625", "U+A626", "U+A627", "U+A628", "U+A629">>,
       <<"U+A8D0", "U+A8D1", "U+A8D2", "U+A8D3", "U+A8D4", "U+A8D5", "U+A8D6", "U+A8D7", "U+A8D8", "U+A8D9">>,
       <<"U+A900", "U+A901", "U+A902", "U+A903", "U+A904", "U+A905", "U+A906", "U+A907", "U+A908", "U+A909">>,
       <<"U+A9D0", "U+A9D1", "U+A9D2", "U+A9D3", "U+A9D4", "U+A9D5", "U+A9D6", "U+A9D7", "U+A9D8", "U+A9D9">>,
       <<"U+A9F0", "U+A9F1", "U+A9F2", "U+A9F3", "U+A9F4", "U+A9F5", "U+A9F6", "U+A9F7", "U+A9F8", "U+A9F9">>,
       <<"U+AA50", "U+AA51", "U+AA52", "U+AA53", "U+AA54", "U+AA55", "U+AA56", "U+AA57", "U+AA58", "U+AA59">>,
       <<"U+ABF0", "U+ABF1", "U+ABF2", "U+ABF3", "U+ABF4", "U+ABF5", "U+ABF6", "U+ABF7", "U+ABF8", "U+ABF9">>,
       <<"U+FF10", "U+FF11", "U+FF12", "U+FF13", "U+FF14", "U+FF15", "U+FF16", "U+FF17", "U+FF18", "U+FF19">>,
       <<"U+104A0", "U+104A1", "U+104A2", "U+104A3", "U+104A4", "U+104A5", "U+104A6", "U+104A7", "U+104A8", "U+104A9">>,
       <<"U+10D30", "U+10D31", "U+10D32", "U+10D33", "U+10D34", "U+10D35", "U+10D36", "U+10D37", "U+10D38", "U+10D39">>,
       <<"U+11066", "U+11067", "U+11068", "U+11069", "U+1106A", "U+1106B", "U+1106C", "U+1106D", "U+1106E", "U+1106F">>,
       <<"U+110F0", "U+110F1", "U+110F2", "U+110F3", "U+110F4", "U+110F5", "U+110F6", "U+110F7", "U+110F8", "U+110F9">>,
       <<"U+11136", "U+11137", "U+11138", "U+11139", "U+1113A", "U+1113B", "U+1113C", "U+1113D", "U+1113E", "U+1113F">>,
       <<"U+111D0", "U+111D1", "U+111D2", "U+111D3", "U+111D4", "U+111D5", "U+111D6", "U+111D7", "U+111D8", "U+111D9">>,
       <<"U+112F0", "U+112F1", "U+112F2", "U+112F3", "U+112F4", "U+112F5", "U+112F6", "U+112F7", "U+112F8", "U+112F9">>,
       <<"U+11450", "U+11451", "U+11452", "U+11453", "U+11454", "U+11455", "U+11456", "U+11457", "U+11458", "U+11459">>,
       <<"U+114D0", "U+114D1", "U+114D2", "U+114D3", "U+114D4", "U+114D5", "U+114D6", "U+114D7", "U+114D8", "U+114D9">>,
       <<"U+11650", "U+11651", "U+11652", "U+11653", "U+11654", "U+11655", "U+11656", "U+11657", "U+11658", "U+11659">>,
       <<"U+116C0", "U+116C1", "U+116C2", "U+116C3", "U+116C4", "U+116C5", "U+116C6", "U+116C7", "U+116C8", "U+116C9">>,
       <<"U+11730", "U+11731", "U+11732", "U+11733", "U+11734", "U+11735", "U+11736", "U+11737", "U+11738", "U+11739">>,
       <<"U+118E0", "U+118E1", "U+118E2", "U+118E3", "U+118E4", "U+118E5", "U+118E6", "U+118E7", "U+118E8", "U+118E9">>,
       <<"U+11950", "U+11951", "U+11952", "U+11953", "U+11954", "U+11955", "U+11956", "U+11957", "U+11958", "U+11959">>,
       <<"U+11C50", "U+11C51", "U+11C52", "U+11C53", "U+11C54", "U+11C55", "U+11C56", "U+11C57", "U+11C58", "U+11C59">>,
       <<"U+11D50", "U+11D51", "U+11D52", "U+11D53", "U+11D54", "U+11D55", "U+11D56", "U+11D57", "U+11D58", "U+11D59">>,
       <<"U+11DA0", "U+11DA1", "U+11DA2", "U+11DA3", "U+11DA4", "U+11DA5", "U+11DA6", "U+11DA7", "U+11DA8", "U+11DA9">>,
       <<"U+16A60", "U+16A61", "U+16A62", "U+16A63", "U+16A64", "U+16A65", "U+16A66", "U+16A67", "U+16A68", "U+16A69">>,
       <<"U+16AC0", "U+16AC1", "U+16AC2", "U+16AC3", "U+16AC4", "U+16AC5", "U+16AC6", "U+16AC7", "U+16AC8", "U+16AC9">>,
       <<"U+16B50", "U+16B51", "U+16B52", "U+16B53", "U+16B54", "U+16B55", "U+16B56", "U+16B57", "U+16B58", "U+16B59">>,
       <<"U+1D7CE", "U+1D7CF", "U+1D7D0", "U+1D7D1", "U+1D7D2", "U+1D7D3", "U+1D7D4", "U+1D7D5", "U+1D7D6", "U+1D7D7">>,
       <<"U+1D7D8", "U+1D7D9", "U+1D7DA", "U+1D7DB", "U+1D7DC", "U+1D7DD", "U+1D7DE", "U+1D7DF", "U+1D7E0", "U+1D7E1">>,
       <<"U+1D7E2", "U+1D7E3", "U+1D7E4", "U+1D7E5", "U+1D7E6", "U+1D7E7", "U+1D7E8", "U+1D7E9", "U+1D7EA", "U+1D7EB">>,
       <<"U+1D7EC", "U+1D7ED", "U+1D7EE", "U+1D7EF", "U+1D7F0", "U+1D7F1", "U+1D7F2", "U+1D7F3", "U+1D7F4", "U+1D7F5">>,
       <<"U+1D7F6", "U+1D7F7", "U+1D7F8", "U+1D7F9", "U+1D7FA", "U+1D7FB", "U+1D7FC", "U+1D7FD", "U+1D7FE", "U+1D7FF">>,
       <<"U+1E140", "U+1E141", "U+1E142", "U+1E143", "U+1E144", "U+1E145", "U+1E146", "U+1E147", "U+1E148", "U+1E149">>,
       <<"U+1E2F0", "U+1E2F1", "U+1E2F2", "U+1E2F3", "U+1E2F4", "U+1E2F5", "U+1E2F6", "U+1E2F7", "U+1E2F8", "U+1E2F9">>,
       <<"U+1E950", "U+1E951", "U+1E952", "U+1E953", "U+1E954", "U+1E955", "U+1E956", "U+1E957", "U+1E958", "U+1E959">>,
       <<"U+1FBF0", "U+1FBF1", "U+1FBF2", "U+1FBF3", "U+1FBF4", "U+1FBF5", "U+1FBF6", "U+1FBF7", "U+1FBF8", "U+1FBF9">> >>

UnicodeDigit == UNION {Range(UnicodeDigits[r]) : r \in 1..Len(UnicodeDigits)}

\* The value of a decimal digit, -1 for another character
Digit(ch) ==
    CASE ch = "0" -> 0 [] ch = "1" -> 1 [] ch = "2" -> 2 [] ch = "3" -> 3
      [] ch = "4" -> 4 [] ch = "5" -> 5 [] ch = "6" -> 6 [] ch = "7" -> 7
      [] ch = "8" -> 8 [] ch = "9" -> 9
      [] OTHER ->
           IF ch \notin UnicodeDigit THEN 0 - 1
           ELSE LET row == CHOOSE r \in 1..Len(UnicodeDigits) :
                               ch \in Range(UnicodeDigits[r])
                IN  (CHOOSE v \in 1..10 : UnicodeDigits[row][v] = ch) - 1

IsDigits(s) == \A i \in 1..Len(s) : Digit(s[i]) >= 0

RECURSIVE NumVal(_)
NumVal(s) ==
    IF s = <<>> THEN 0
    ELSE 10 * NumVal(SubSeq(s, 1, Len(s) - 1)) + Digit(s[Len(s)])

\* The letters of inf, infinity, nan and of the exponent mark, in lower case
Lower(ch) ==
    CASE ch = "I" -> "i" [] ch = "N" -> "n" [] ch = "F" -> "f" [] ch = "T" -> "t"
      [] ch = "Y" -> "y" [] ch = "A" -> "a" [] ch = "E" -> "e" [] OTHER -> ch

\* The text without its leading and trailing blanks
Strip(s) ==
    LET inked == SelectSeq([i \in 1..Len(s) |-> i], LAMBDA i : s[i] \notin Whitespace)
    IN  IF inked = <<>> THEN <<>>
        ELSE SubSeq(s, inked[1], inked[Len(inked)])

\* digit (["_"] digit)*
IsDigitPart(g) ==
    /\ g # <<>>
    /\ \A i \in 1..Len(g) : g[i] = "_" \/ Digit(g[i]) >= 0
    /\ g[1] # "_"
    /\ g[Len(g)] # "_"
    /\ \A i \in 1..(Len(g) - 1) : ~(g[i] = "_" /\ g[i + 1] = "_")

\* The digits of a digit part, as numbers
DigitsOf(g) ==
    LET kept == SelectSeq(g, LAMBDA ch : ch # "_")
    IN  <<>> \o [i \in 1..Len(kept) |-> Digit(kept[i])]

\* The places of the digits that are not 0, in order
NonZeroAt(d) == SelectSeq([i \in 1..Len(d) |-> i], LAMBDA i : d[i] # 0)

LeadingZeros(d) ==
    LET at == NonZeroAt(d)
    IN  IF at = <<>> THEN Len(d) ELSE at[1] - 1

TrailingZeros(d) ==
    LET at == NonZeroAt(d)
    IN  IF at = <<>> THEN Len(d) ELSE Len(d) - at[Len(at)]

\* A natural number of any size is the sequence of its decimal digits, the
\* first not 0; zero is <<>>.  Natural(d) is the number of the digits d.
Natural(d) == SubSeq(d, LeadingZeros(d) + 1, Len(d))

\* 2 * a
Double(a) ==
    LET carry(i) == IF i <= Len(a) /\ a[i] >= 5 THEN 1 ELSE 0
    IN  (IF carry(1) = 1 THEN <<1>> ELSE <<>>)
            \o [i \in 1..Len(a) |-> (2 * a[i] + carry(i + 1)) % 10]

\* a * 2^n
RECURSIVE DoubleN(_, _)
DoubleN(a, n) ==
    IF a = <<>> \/ n = 0 THEN a
    ELSE IF n = 1 THEN Double(a)
    ELSE DoubleN(DoubleN(a, n \div 2), n - n \div 2)

\* a / 2, for an even a
Half(a) ==
    Natural(<<>> \o [i \in 1..Len(a) |->
                        (a[i] + (IF i > 1 /\ a[i - 1] % 2 = 1 THEN 10 ELSE 0)) \div 2])

\* a + 1
Increment(a) ==
    LET at == SelectSeq([i \in 1..Len(a) |-> i], LAMBDA i : a[i] # 9)
    IN  IF at = <<>> THEN <<1>> \o [i \in 1..Len(a) |-> 0]
        ELSE <<>> \o [i \in 1..Len(a) |->
                         IF i < at[Len(at)] THEN a[i]
                         ELSE IF i = at[Len(at)] THEN a[i] + 1 ELSE 0]

IsOdd(a) == a # <<>> /\ a[Len(a)] % 2 = 1

\* The digits lo..hi of a against those of b: -1, 0 or 1
RECURSIVE CompareDigits(_, _, _, _)
CompareDigits(a, b, lo, hi) ==
    IF lo > hi THEN 0
    ELSE IF lo = hi
    THEN (IF a[lo] < b[lo] THEN 0 - 1 ELSE IF a[lo] > b[lo] THEN 1 ELSE 0)
    ELSE LET mid == (lo + hi) \div 2
             high == CompareDigits(a, b, lo, mid)
         IN  IF high # 0 THEN high ELSE CompareDigits(a, b, mid + 1, hi)

\* -1, 0 or 1 as a is less than, equal to or greater than b
Compare(a, b) ==
    IF Len(a) < Len(b) THEN 0 - 1
    ELSE IF Len(a) > Len(b) THEN 1
    ELSE CompareDigits(a, b, 1, Len(a))

\* The digits lo..hi of a - b - borrow, for a and b of the same length, and
\* what is borrowed from the digit before lo
RECURSIVE SubtractDigits(_, _, _, _, _)
SubtractDigits(a, b, lo, hi, borrow) ==
    IF lo = hi
    THEN LET d == a[lo] - b[lo] - borrow
         IN  IF d < 0 THEN [digits |-> <<d + 10>>, borrow |-> 1]
             ELSE [digits |-> <<d>>, borrow |-> 0]
    ELSE LET mid == (lo + hi) \div 2
             low == SubtractDigits(a, b, mid + 1, hi, borrow)
             high == IF low.borrow = 1 THEN SubtractDigits(a, b, lo, mid, 1)
                     ELSE SubtractDigits(a, b, lo, mid, 0)
         IN  [digits |-> high.digits \o low.digits, borrow |-> high.borrow]

\* a - b, for a >= b
Subtract(a, b) ==
    IF b = <<>> THEN a
    ELSE Natural(SubtractDigits(a, [i \in 1..(Len(a) - Len(b)) |-> 0] \o b,
                                1, Len(a), 0).digits)

\* sys.float_info.mant_dig, max_exp and min_exp: a double has 53 bits of
\* mantissa, is below 2^1024, and is a multiple of 2^-1074 below 2^-1022
MantDig == 53

MaxExp == 1024

MinExp == 0 - 1021

\* MAX_ABS_EXP of the conversion: an exponent of more than nine digits is
\* read as this one
MaxAbsExp == 1100000000

\* A decimal value of 10^309 or more is beyond every double, and one below
\* 10^-324 is below 2^-1075
MaxTenExp == 308

\* MAX_DIGITS of the conversion: text with more digits is not converted
MaxDigits == 1000000000

MinTenExp == 0 - 324

\* The value of an exponent's digit part
ExponentValue(g) ==
    LET kept == SelectSeq(g, LAMBDA ch : ch # "_")
        significant == SubSeq(kept, LeadingZeros(DigitsOf(g)) + 1, Len(kept))
    IN  IF Len(significant) > 9 THEN MaxAbsExp ELSE NumVal(significant)

\* a / b brought between 1 and 2: the a, the b and the e with
\* 1 <= a / b < 2 after a was doubled -e times or b was doubled e times
\* more
RECURSIVE Normalise(_, _, _)
Normalise(a, b, e) ==
    IF Compare(a, b) < 0 THEN Normalise(Double(a), b, e - 1)
    ELSE IF Compare(a, Double(b)) >= 0 THEN Normalise(a, Double(b), e + 1)
    ELSE [a |-> a, b |-> b, e |-> e]

\* Twice q and the bit
WithBit(doubled, bit) ==
    IF ~bit THEN doubled
    ELSE IF doubled = <<>> THEN <<1>>
    ELSE [doubled EXCEPT ![Len(doubled)] = @ + 1]

\* A step of the division of d.r by b, for its next bit: the bit is added
\* to the bits d.q, and what is left is doubled
Step(d, b, bit) ==
    [q |-> WithBit(Double(d.q), bit),
     r |-> Double(IF bit THEN Subtract(d.r, b) ELSE d.r),
     j |-> d.j + 1]

\* The first p bits of d.r / (2 * b) after the point, or fewer when the
\* division ends: the bits q, what is left r, and their number j
RECURSIVE Quotient(_, _, _)
Quotient(d, b, p) ==
    IF d.j >= p \/ d.r = <<>> THEN d
    ELSE Quotient(Step(d, b, Compare(d.r, b) >= 0), b, p)

\* m * 2^e with an odd m
RECURSIVE Binary(_, _, _)
Binary(neg, m, e) ==
    IF m = <<>> THEN Float("finite", neg, <<>>, 0)
    ELSE IF IsOdd(m) THEN Float("finite", neg, m, e)
    ELSE Binary(neg, Half(m), e + 1)

\* The double m * 2^e, or infinity when it is 2^1024
Finite(x) ==
    IF x.mantissa = <<1>> /\ x.exponent = MaxExp THEN Float("inf", x.neg, <<>>, 0)
    ELSE x

\* The bits d.q of a quotient rounded for what is left of the division by
\* b (half is d.r against b): up when more than half is left, and to the
\* even mantissa when half is left
HalfEven(neg, d, half, e) ==
    Finite(Binary(neg,
                  IF d.r # <<>> /\ (half > 0 \/ (half = 0 /\ IsOdd(d.q)))
                  THEN Increment(d.q) ELSE d.q,
                  e - d.j + 1))

\* The bits a double keeps of a value between 2^e and 2^(e + 1): 53, and
\* fewer below 2^-1022
Precision(e) == IF e >= MinExp - 1 THEN MantDig ELSE MantDig - (MinExp - 1 - e)

Divided(neg, n, d) == HalfEven(neg, d, Compare(d.r, n.b), n.e)

\* The double nearest to n.a / n.b * 2^n.e, n.a / n.b being between 1 and 2
Rounded(neg, n) ==
    IF n.e >= MaxExp THEN Float("inf", neg, <<>>, 0)
    ELSE IF Precision(n.e) < 0 THEN Float("finite", neg, <<>>, 0)
    ELSE Divided(neg, n, Quotient([q |-> <<>>, r |-> n.a, j |-> 0], n.b, Precision(n.e)))

\* A power of two that is not above 10^t: its exponent
PowerBelow(t) ==
    IF t >= 0 THEN (t * 33219) \div 10000
    ELSE 0 - (((0 - t) * 33220 + 9999) \div 10000)

\* The double nearest to a / b, for a and b not zero whose quotient is at
\* least 2^below: half-way between two doubles the one of even mantissa
Nearest(neg, a, b, below) ==
    Rounded(neg, Normalise(IF below >= 0 THEN a ELSE DoubleN(a, 0 - below),
                           IF below >= 0 THEN DoubleN(b, below) ELSE b,
                           below))

\* The double nearest to d1.d2...dn * 10^t, d1 and dn not 0; zero for no
\* digits
Placed(neg, digits, t, k) ==
    IF digits = <<>> THEN Float("finite", neg, <<>>, 0)
    ELSE IF t > MaxTenExp THEN Float("inf", neg, <<>>, 0)
    ELSE IF t < MinTenExp THEN Float("finite", neg, <<>>, 0)
    ELSE Nearest(neg,
                 IF k >= 0 THEN digits \o [i \in 1..k |-> 0] ELSE digits,
                 IF k >= 0 THEN <<1>> ELSE <<1>> \o [i \in 1..(0 - k) |-> 0],
                 PowerBelow(t))

\* The digits `all` with the point after the first `point` of them, times
\* 10^e
Pointed(neg, all, point, lead, trail) ==
    Placed(neg, SubSeq(all, lead + 1, Len(all) - trail), point - lead - 1,
           point - Len(all) + trail)

\* intpart "." fracpart times ten to the power e, as a double
Decimal(neg, intpart, fracpart, e) ==
    Pointed(neg, intpart \o fracpart, Len(intpart) + e,
            LeadingZeros(intpart \o fracpart), TrailingZeros(intpart \o fracpart))

\* The number part of the text: digits[.digits] or .digits, then an
\* exponent.  The conversion refuses more than MaxDigits digits, counted
\* without the leading zeros, and more than MaxDigits digits in the
\* fraction.
Number(neg, low) ==
    LET marks == {i \in 1..Len(low) : low[i] = "e"}
        m == IF marks = {} THEN Len(low) + 1 ELSE CHOOSE i \in marks : TRUE
        mantissa == SubSeq(low, 1, m - 1)
        after == SubSeq(low, m + 1, Len(low))
        signed == after # <<>> /\ Head(after) \in {"+", "-"}
        exponent == IF signed THEN Tail(after) ELSE after
        dots == {i \in 1..Len(mantissa) : mantissa[i] = "."}
        d == IF dots = {} THEN Len(mantissa) + 1 ELSE CHOOSE i \in dots : TRUE
        ip == SubSeq(mantissa, 1, d - 1)
        fp == SubSeq(mantissa, d + 1, Len(mantissa))
    IN  IF \/ Cardinality(marks) > 1
           \/ Cardinality(dots) > 1
           \/ marks # {} /\ ~IsDigitPart(exponent)
           \/ ip = <<>> /\ fp = <<>>
           \/ ip # <<>> /\ ~IsDigitPart(ip)
           \/ fp # <<>> /\ ~IsDigitPart(fp)
           \/ Len(DigitsOf(ip \o fp)) - LeadingZeros(DigitsOf(ip \o fp)) > MaxDigits
           \/ Len(DigitsOf(fp)) > MaxDigits
        THEN ValueError
        ELSE LET e == IF marks = {} THEN 0
                      ELSE IF signed /\ Head(after) = "-"
                      THEN 0 - ExponentValue(exponent)
                      ELSE ExponentValue(exponent)
             IN  Decimal(neg, DigitsOf(ip), DigitsOf(fp), e)

float(label) ==
    LET text == Strip(label)
        signed == text # <<>> /\ Head(text) \in {"+", "-"}
        neg == signed /\ Head(text) = "-"
        body == IF signed THEN Tail(text) ELSE text
        low == [i \in 1..Len(body) |-> Lower(body[i])]
    IN  IF low \in {<<"i", "n", "f">>, <<"i", "n", "f", "i", "n", "i", "t", "y">>}
        THEN Float("inf", neg, <<>>, 0)
        ELSE IF low = <<"n", "a", "n">> THEN Float("nan", FALSE, <<>>, 0)
        ELSE Number(neg, low)

\* 99.99, the double 7036170730324623 * 2^-46
InfiniteCost == Cost(<<7, 0, 3, 6, 1, 7, 0, 7, 3, 0, 3, 2, 4, 6, 2, 3>>, 0 - 46)

\* OlsrLink.from_strings: the link; its cost is ValueError when float(label)
\* raises
from_strings(source, destination, label) ==
    LET cost == IF label = INFINITE THEN InfiniteCost ELSE float(label)
    IN  [source |-> source, destination |-> destination, cost |-> cost]

(***************************************************************************)
(* Text.  readline() returns bytes, numbers in 0..255.  A str is the       *)
(* sequence of its characters; a character is written as itself when it is *)
(* printable ASCII, by its escape when it is \t, \n, \x0b, \f or \r, and   *)
(* by its code point ("U+00A0") otherwise; so is the grave accent          *)
(* ("U+0060"), which the strings of this module cannot hold.               *)
(***************************************************************************)
\* The characters 32 (space) to 126 (~)
Printable ==
    << " ", "!", "\"", "#", "$", "%", "&", "'", "(", ")", "*", "+", ",",
       "-", ".", "/", "0", "1", "2", "3", "4", "5", "6", "7", "8", "9",
       ":", ";", "<", "=", ">", "?", "@", "A", "B", "C", "D", "E", "F",
       "G", "H", "I", "J", "K", "L", "M", "N", "O", "P", "Q", "R", "S",
       "T", "U", "V", "W", "X", "Y", "Z", "[", "\\", "]", "^", "_",
       "U+0060", "a", "b", "c", "d", "e", "f", "g", "h", "i", "j", "k", "l",
       "m", "n", "o", "p", "q", "r", "s", "t", "u", "v", "w", "x", "y", "z",
       "{", "|", "}", "~" >>

HexDigits == <<"0", "1", "2", "3", "4", "5", "6", "7", "8", "9",
               "A", "B", "C", "D", "E", "F">>

\* "%0*X" % (width, n)
RECURSIVE Hex(_, _)
Hex(n, width) ==
    IF n < 16 /\ width <= 1 THEN HexDigits[n + 1]
    ELSE Hex(n \div 16, width - 1) \o HexDigits[(n % 16) + 1]

\* The character of a code point
chr(cp) ==
    IF cp >= 32 /\ cp <= 126 THEN Printable[cp - 31]
    ELSE CASE cp = 9 -> "\t" [] cp = 10 -> "\n" [] cp = 11 -> ""
           [] cp = 12 -> "\f" [] cp = 13 -> "\r"
           [] OTHER -> "U+" \o Hex(cp, 4)

\* The code point of an ASCII character
ord(ch) == CHOOSE cp \in 0..127 : chr(cp) = ch

\* str.encode() of ASCII text: the bytes the daemon sends for it
encode(text) == [i \in 1..Len(text) |-> ord(text[i])]

\* UTF-8: a byte 10xxxxxx continues a character
IsContinuation(b) == b >= 128 /\ b <= 191

\* How many bytes the character has that this byte opens; 0 for a byte
\* that opens none (80-C1, F5-FF)
Width(b) ==
    IF b <= 127 THEN 1
    ELSE IF b >= 194 /\ b <= 223 THEN 2
    ELSE IF b >= 224 /\ b <= 239 THEN 3
    ELSE IF b >= 240 /\ b <= 244 THEN 4
    ELSE 0

\* The bytes from i on are one character: all its continuation bytes are
\* there, it is not overlong, not a surrogate and not beyond U+10FFFF
WellFormed(s, i) ==
    /\ Width(s[i]) > 0
    /\ i + Width(s[i]) - 1 <= Len(s)
    /\ \A k \in 1..(Width(s[i]) - 1) : IsContinuation(s[i + k])
    /\ s[i] = 224 => s[i + 1] >= 160
    /\ s[i] = 237 => s[i + 1] <= 159
    /\ s[i] = 240 => s[i + 1] >= 144
    /\ s[i] = 244 => s[i + 1] <= 143

\* The continuation byte at i belongs to the character opened before it
Covered(s, i) ==
    \E j \in 1..(i - 1) :
        /\ i - j <= 3
        /\ ~IsContinuation(s[j])
        /\ \A k \in (j + 1)..(i - 1) : IsContinuation(s[k])
        /\ Width(s[j]) > i - j

CodePoint(s, i) ==
    CASE Width(s[i]) = 1 -> s[i]
      [] Width(s[i]) = 2 -> (s[i] - 192) * 64 + (s[i + 1] - 128)
      [] Width(s[i]) = 3 -> (s[i] - 224) * 4096 + (s[i + 1] - 128) * 64
                              + (s[i + 2] - 128)
      [] Width(s[i]) = 4 -> (s[i] - 240) * 262144 + (s[i + 1] - 128) * 4096
                              + (s[i + 2] - 128) * 64 + (s[i + 3] - 128)

\* bytes.decode("utf-8"): the str, or UnicodeDecodeError
decode(s) ==
    IF \E i \in 1..Len(s) :
          IF IsContinuation(s[i]) THEN ~Covered(s, i) ELSE ~WellFormed(s, i)
    THEN [error |-> "UnicodeDecodeError", text |-> <<>>]
    ELSE LET starts == SelectSeq([i \in 1..Len(s) |-> i],
                                 LAMBDA i : ~IsContinuation(s[i]))
         IN  [error |-> "",
              text  |-> [k \in 1..Len(starts) |-> chr(CodePoint(s, starts[k]))]]

\* The characters of str.isspace(): the blanks of float() and the four
\* separators \x1c to \x1f
Space == Whitespace \cup {"U+001C", "U+001D", "U+001E", "U+001F"}

\* str.rstrip(): the text without the spaces at its end
rstrip(s) ==
    LET n == Len(s)
        k == CHOOSE k \in 0..n :
                 /\ \A j \in 0..(k - 1) : s[n - j] \in Space
                 /\ k = n \/ s[n - k] \notin Space
    IN  SubSeq(s, 1, n - k)

(***************************************************************************)
(* The two regular expressions.  A pattern is a sequence of items: a       *)
(* literal text, a run of lo to hi digits (\d, any decimal digit of        *)
(* Unicode; hi = 0 for no upper limit), or the lazy ".+?" with the literal *)
(* that ends it ("." is any character but "\n").  In both patterns a run   *)
(* of digits is followed by a literal that is not a digit or by the end of *)
(* the pattern, so the longest run is the only one that can match.         *)
(***************************************************************************)
Literal(text) == [item |-> "literal", text |-> text, lo |-> 0, hi |-> 0]

Digits(lo, hi) == [item |-> "digits", text |-> <<>>, lo |-> lo, hi |-> hi]

Lazy(text) == [item |-> "lazy", text |-> text, lo |-> 0, hi |-> 0]

\* The text has `lit` at i
HasAt(s, i, lit) ==
    /\ i + Len(lit) - 1 <= Len(s)
    /\ SubSeq(s, i, i + Len(lit) - 1) = lit

\* The length of the run of digits at i, as far as `most`
DigitRun(s, i, most) ==
    CHOOSE k \in 0..most :
        /\ \A j \in 0..(k - 1) : i + j <= Len(s) /\ Digit(s[i + j]) >= 0
        /\ \/ k = most
           \/ i + k > Len(s)
           \/ Digit(s[i + k]) < 0

\* Where the item ends when it matches at i (the index after it), 0 when
\* it does not match
MatchItem(s, i, it) ==
    CASE it.item = "literal" ->
            IF HasAt(s, i, it.text) THEN i + Len(it.text) ELSE 0
      [] it.item = "digits" ->
            LET k == DigitRun(s, i, IF it.hi = 0 THEN Len(s) ELSE it.hi)
            IN  IF k >= it.lo THEN i + k ELSE 0
      [] it.item = "lazy" ->
            LET ends == {k \in 1..(Len(s) - i + 1) :
                            /\ HasAt(s, i + k, it.text)
                            /\ \A j \in 0..(k - 1) : s[i + j] # "\n"}
            IN  IF ends = {} THEN 0
                ELSE LET k == CHOOSE k \in ends : \A m \in ends : k <= m
                     IN  i + k + Len(it.text)

\* re.match: the indexes at which the items end, <<>> (None) when the
\* pattern does not match at the start of the text
RECURSIVE MatchFrom(_, _, _, _)
MatchFrom(s, pattern, i, ends) ==
    IF Len(ends) = Len(pattern) THEN ends
    ELSE LET j == MatchItem(s, i, pattern[Len(ends) + 1])
         IN  IF j = 0 THEN <<>> ELSE MatchFrom(s, pattern, j, Append(ends, j))

match(pattern, s) == MatchFrom(s, pattern, 1, <<>>)

\* \d{1,3}\.\d{1,3}\.\d{1,3}, after the first octet and its dot
Octets ==
    << Digits(1, 3), Literal(<<".">>), Digits(1, 3), Literal(<<".">>),
       Digits(1, 3) >>

Arrow == <<"\"", " ", "-", ">", " ", "\"">>

\* ^"(\d{2}\.\d{1,3}\.\d{1,3}\.\d{1,3})" -> "\d+
NodePattern ==
    << Literal(<<"\"">>), Digits(2, 2), Literal(<<".">>) >> \o Octets
       \o << Literal(Arrow), Digits(1, 0) >>

\* ^"(10\.\d{1,3}\.\d{1,3}\.\d{1,3})" -> "(10\.\d{1,3}\.\d{1,3}\.\d{1,3})"\[label="(.+?)"\];
LinkPattern ==
    << Literal(<<"\"">>), Literal(<<"1", "0", ".">>) >> \o Octets
       \o << Literal(Arrow), Literal(<<"1", "0", ".">>) >> \o Octets
       \o << Literal(<<"\"", "[", "l", "a", "b", "e", "l", "=", "\"">>),
             Lazy(<<"\"", "]", ";">>) >>

\* NODE_REGEX.match(line): the groups of the match, <<>> for None
NODE_REGEX(line) ==
    LET m == match(NodePattern, line)
    IN  IF m = <<>> THEN <<>> ELSE << SubSeq(line, 2, m[8] - 1) >>

\* LINK_REGEX.match(line): the groups of the match, <<>> for None
LINK_REGEX(line) ==
    LET m == match(LinkPattern, line)
    IN  IF m = <<>> THEN <<>>
        ELSE << SubSeq(line, 2, m[7] - 1),
                SubSeq(line, m[8], m[14] - 1),
                SubSeq(line, m[15], m[16] - 4) >>

(***************************************************************************)
(* OLSR lines, as the daemon's dot output has them:                        *)
(*     "<src>" -> "<dst>"[label="<label>"];                                *)
(* A destination may carry a CIDR suffix ("10.0.0.0/8", an HNA record).    *)
(* readline() returns a line with its "\n"; StreamReader's limit of 2^16   *)
(* bytes is far above the lines of the model.                              *)
(***************************************************************************)
Quoted(text) == <<"\"">> \o text \o <<"\"">>

EdgeLine(src, dst, label) ==
    encode(Quoted(src) \o <<" ", "-", ">", " ">> \o Quoted(dst)
           \o <<"[", "l", "a", "b", "e", "l", "=">> \o Quoted(label)
           \o <<"]", ";", "\n">>)

\* The line with the last byte of its label garbled to 0xFF, a byte no
\* UTF-8 text has
Garbled(line) == [line EXCEPT ![Len(line) - 4] = 255]

OtherLine == encode(<<"}", "\n">>)

Lines ==
    { EdgeLine(Addr(10, 1), Addr(10, 2), <<"1", ".", "0", "0", "0">>),
      EdgeLine(Addr(10, 1), Addr(10, 2), INFINITE),
      EdgeLine(Addr(10, 2), Addr(10, 1), <<"2", ".", "5", "0", "0">>),
      EdgeLine(Addr(10, 2), Addr(10, 1), INFINITE),
      EdgeLine(Addr(10, 2), <<"1", "0", ".", "0", ".", "0", ".", "0", "/", "8">>,
               <<"H", "N", "A">>),
      EdgeLine(Addr(44, 1), Addr(10, 1), <<"1", ".", "0", "0", "0">>),
      EdgeLine(Addr(10, 1), Addr(10, 1), <<"H", "N", "A">>),
      EdgeLine(<<"0", "5", ".", "1", ".", "1", ".", "1">>, Addr(10, 1),
               <<"1", ".", "0", "0", "0">>),
      Garbled(EdgeLine(Addr(10, 2), Addr(10, 1), <<"2", ".", "5", "0", "0">>)),
      OtherLine }

(***************************************************************************)
(* OlsrData.                                                               *)
(***************************************************************************)
Consumers == {"nodes", "links"}

StatKeys == {"lines processed", "nodes returned", "duplicate node",
             "links returned", "duplicate link"}

Bump(stats, key) == [stats EXCEPT ![key] = @ + 1]

\* OlsrData.__init__
OlsrInit ==
    [ finished    |-> FALSE,
      queue       |-> [c \in Consumers |-> <<>>],
      locked      |-> FALSE,
      waiters     |-> <<>>,
      stats       |-> [k \in StatKeys |-> 0],
      nodes_seen  |-> {},
      links_seen  |-> {},
      closed      |-> 0,
      reads       |-> 0 ]

\* The empty string, as an address
NoAddr == <<>>

\* OlsrData._get_address: the address to yield ("" when there is none) and
\* the object after the call
_get_address(o, line) ==
    LET m == NODE_REGEX(line)
    IN  IF m = <<>> THEN [ret |-> NoAddr, o |-> o]
        ELSE IF m[1] \in o.nodes_seen
        THEN [ret |-> NoAddr, o |-> [o EXCEPT !.stats = Bump(@, "duplicate node")]]
        ELSE [ret |-> m[1],
              o   |-> [o EXCEPT !.nodes_seen = @ \cup {m[1]},
                                !.stats = Bump(@, "nodes returned")]]

\* None, where an OlsrLink is expected
NoLink == [source |-> NoAddr, destination |-> NoAddr, cost |-> Cost(<<>>, 0)]

\* _get_link without the check of _links_seen
_get_link_NoSeenCheck(o, line) ==
    LET m == LINK_REGEX(line)
    IN  IF m = <<>> THEN [ret |-> NoLink, o |-> o]
        ELSE [ret |-> from_strings(m[1], m[2], m[3]),
              o   |-> [o EXCEPT !.links_seen = @ \cup {<<m[1], m[2]>>},
                                !.stats = Bump(@, "links returned")]]

\* OlsrData._get_link: the link to yield (None when there is none; a link of
\* cost ValueError when from_strings raises) and the object after the call
_get_link(o, line) ==
    LET m == LINK_REGEX(line)
    IN  IF m = <<>> THEN [ret |-> NoLink, o |-> o]
        ELSE IF <<m[1], m[2]>> \in o.links_seen
        THEN [ret |-> NoLink, o |-> [o EXCEPT !.stats = Bump(@, "duplicate link")]]
        ELSE [ret |-> from_strings(m[1], m[2], m[3]),
              o   |-> [o EXCEPT !.links_seen = @ \cup {<<m[1], m[2]>>},
                                !.stats = Bump(@, "links returned")]]

\* Lines 137-138: the address _get_address returned, when there is one,
\* goes to the queue of `nodes`
QueueNode(a) ==
    IF a.ret # NoAddr THEN [a.o EXCEPT !.queue["nodes"] = Append(@, a.ret)]
    ELSE a.o

\* Lines 139-140: the link _get_link returned, when there is one, goes to
\* the queue of `links`; the ValueError of from_strings leaves _get_link
\* and _populate_queues
QueueLink(l) ==
    IF l.ret.cost = ValueError THEN [raised |-> "ValueError", o |-> l.o]
    ELSE IF l.ret # NoLink
    THEN [raised |-> "", o |-> [l.o EXCEPT !.queue["links"] = Append(@, l.ret)]]
    ELSE [raised |-> "", o |-> l.o]

\* Lines 135-140 of _populate_queues, from the decoded and stripped line:
\* the object after routing it, and what the call raised ("" for nothing)
Route(o, line_str) ==
    QueueLink(_get_link(QueueNode(_get_address(o, line_str)), line_str))

\* OlsrData._populate_queues, from the bytes that readline() returned: the
\* line is counted, then decoded (which raises on bytes that are not
\* UTF-8, with nothing else touched), stripped and routed
RouteLine(o, line_bytes) ==
    LET o1 == [o EXCEPT !.stats = Bump(@, "lines processed")]
        decoded == decode(line_bytes)
    IN  IF decoded.error # "" THEN [raised |-> decoded.error, o |-> o1]
        ELSE Route(o1, rstrip(decoded.text))

(***************************************************************************)
(* asyncio.Lock, as OlsrData uses it: acquire() takes a free lock only     *)
(* when no task waits for it, and otherwise queues the caller; release()   *)
(* frees the lock and wakes the first waiter.                              *)
(***************************************************************************)
\* An acquire() that does not look at the lock
CanAcquire_Unguarded(o) == o.waiters = <<>>

CanAcquire(o) == ~o.locked /\ o.waiters = <<>>

Release(o) == [o EXCEPT !.locked = FALSE]

(***************************************************************************)
(* LineGenerator.__anext__.                                                *)
(* AnextEntry is what a call does first (lines 56-64): return a buffered   *)
(* item, go for the lock, or end.  AnextAfterLock is what it does when it  *)
(* leaves the "async with" block (lines 59, 63-66).                        *)
(***************************************************************************)
AnextEntry(o, c) ==
    IF Len(o.queue[c]) > 0 THEN "popleft"
    ELSE IF ~o.finished THEN "lock"
    ELSE "StopAsyncIteration"

AnextAfterLock(o, c) ==
    IF Len(o.queue[c]) = 0 /\ ~o.finished THEN "lock"
    ELSE IF o.finished THEN "StopAsyncIteration"
    ELSE "popleft"

\* The consumer's state after it has run on from `step` to its next
\* suspension: every "popleft" returns an item to the consumer, which calls
\* __anext__ again at once ("async for"); "lock" takes the lock and issues
\* readline(), or waits for the lock; "StopAsyncIteration" ends the loop.
RECURSIVE RunFrom(_, _, _, _)
RunFrom(step, o, c, out) ==
    CASE step = "popleft" ->
            LET o1 == [o EXCEPT !.queue[c] = Tail(@)]
            IN  RunFrom(AnextEntry(o1, c), o1, c, Append(out, Head(o.queue[c])))
      [] step = "lock" ->
            IF CanAcquire(o)
            THEN [o |-> [o EXCEPT !.locked = TRUE, !.reads = @ + 1],
                  pc |-> "reading", out |-> out]
            ELSE [o |-> [o EXCEPT !.waiters = Append(@, c)],
                  pc |-> "waiting", out |-> out]
      [] OTHER ->
            [o |-> o, pc |-> "done", out |-> out]


\* The stream part before its first step: OlsrData.connect has returned
StreamStart ==
    /\ pos = 0
    /\ olsr = OlsrInit
    /\ pc = [c \in Consumers |-> "ready"]
    /\ yielded = [c \in Consumers |-> <<>>]

(***************************************************************************)
(* collector.service().                                                    *)
(* svc.pc is where the coroutine is: at the top of the loop ("Connecting"),*)
(* in the sleep after a failed connect ("RetrySleep"), in                  *)
(* poller.network_info ("Polling"), at the database session                *)
(* ("Reconciling"), in the sleep that ends a cycle ("Sleeping"), or out of *)
(* the function: "Aborted" (ServiceError), "Failed" (another exception),   *)
(* "Stopped" (run_once).                                                   *)
(***************************************************************************)
NoError == [type |-> "", host |-> "", count |-> 0]

\* ServiceError(f"Failed to connect to '{local_node}' for network data
\*               {connection_failures} times in a row.  Aborting.")
ServiceError(local_node, connection_failures) ==
    [type |-> "ServiceError", host |-> local_node, count |-> connection_failures]

run_period_seconds == cfg.polling_period * 60

ServiceStart ==
    svc = [ pc                  |-> "Connecting",
            connection_failures |-> 0,
            attempts            |-> 0,      \* calls of OlsrData.connect
            connected           |-> 0,      \* those that returned a stream
            polls               |-> 0,      \* calls of poller.network_info
            sleeps              |-> <<>>,   \* the arguments of asyncio.sleep
            total_elapsed       |-> 0,
            collector_stats     |-> 0,      \* CollectorStat rows committed
            error               |-> NoError ]

Hosts == {"localnode", "10.0.0.1"}

\* The arguments of service() in the parts that do not run the loop: the
\* keyword defaults of its signature (max_retries=5, run_once=False) and,
\* for the two arguments that have no default, a local node and a period of
\* one minute
DefaultCfg == [local_node |-> "localnode", polling_period |-> 1,
               max_retries |-> 5, run_once |-> FALSE]

\* The database part before the first cycle: no rows
NoCounts == [k \in {"nodes: total", "nodes: added", "nodes: updated",
                    "links: total", "links: errors", "links: new",
                    "links: updated", "expired: links", "expired: nodes"} |-> 0]

\* The CollectorStat table: the number of its rows and the newest of them
\* (rows are only ever added, and never read back)
NoStats == [rows |-> 0, newest |-> <<>>]

AddStat(stats, stat) == [rows |-> stats.rows + 1, newest |-> <<stat>>]

DbStart ==
    /\ db = [nodes |-> <<>>, links |-> {}, stats |-> NoStats]
    /\ committed = [nodes |-> <<>>, links |-> {}, stats |-> NoStats]
    /\ clock = 0
    /\ phase = "idle"
    /\ polled = [nodes |-> <<>>, links |-> <<>>, errors |-> <<>>]
    /\ count = NoCounts
    /\ cycles = 0

DefaultExpire == [nodes_expire |-> 1, links_expire |-> 1]

\* The polling part before _poll_nodes is called
PollStart ==
    /\ poll = [max_connections |-> 1, addresses |-> <<>>, pc |-> "drawing",
               session |-> "open", node_results |-> <<>>]
    /\ tasks = <<>>

\* The merge part before get_network_info has results to merge
MergeStart ==
    /\ node_results = <<>>
    /\ olsr_links = <<>>
    /\ info = <<>>

InitService ==
    /\ cfg \in [local_node : Hosts, polling_period : 1..2,
                max_retries : 1..MaxRetries, run_once : BOOLEAN]
    /\ ServiceStart
    /\ stream = <<>>
    /\ StreamStart
    /\ MergeStart
    /\ DbStart
    /\ PollStart
    /\ expire = DefaultExpire

\* ConnectFails with the comparison off by one (> for >=)
ConnectFails_OffByOne ==
    /\ svc.pc = "Connecting"
    /\ svc.attempts < MaxCycles
    /\ LET failures == svc.connection_failures + 1
       IN  IF failures > cfg.max_retries \/ cfg.run_once
           THEN svc' = [svc EXCEPT !.pc = "Aborted",
                                   !.connection_failures = failures,
                                   !.attempts = @ + 1,
                                   !.error = ServiceError(cfg.local_node, failures)]
           ELSE svc' = [svc EXCEPT !.pc = "RetrySleep",
                                   !.connection_failures = failures,
                                   !.attempts = @ + 1,
                                   !.sleeps = Append(@, run_period_seconds)]
    /\ UNCHANGED <<cfg, notService>>

\* OlsrData.connect raises RuntimeError (lines 126-135)
ConnectFails ==
    /\ svc.pc = "Connecting"
    /\ svc.attempts < MaxCycles
    /\ LET failures == svc.connection_failures + 1
       IN  IF failures >= cfg.max_retries \/ cfg.run_once
           THEN svc' = [svc EXCEPT !.pc = "Aborted",
                                   !.connection_failures = failures,
                                   !.attempts = @ + 1,
                                   !.error = ServiceError(cfg.local_node, failures)]
           ELSE svc' = [svc EXCEPT !.pc = "RetrySleep",
                                   !.connection_failures = failures,
                                   !.attempts = @ + 1,
                                   !.sleeps = Append(@, run_period_seconds)]
    /\ UNCHANGED <<cfg, notService>>

\* asyncio.sleep(run_period_seconds) returns: continue (line 135)
RetryWake ==
    /\ svc.pc = "RetrySleep"
    /\ svc' = [svc EXCEPT !.pc = "Connecting"]
    /\ UNCHANGED <<cfg, notService>>

\* ConnectOk without the reset of the failure counter (line 138)
ConnectOk_NoReset ==
    /\ svc.pc = "Connecting"
    /\ svc.attempts < MaxCycles
    /\ svc' = [svc EXCEPT !.pc = "Polling",
                          !.attempts = @ + 1,
                          !.connected = @ + 1,
                          !.polls = @ + 1]
    /\ UNCHANGED <<cfg, notService>>

\* OlsrData.connect returns a stream (lines 125, 138-140)
ConnectOk ==
    /\ svc.pc = "Connecting"
    /\ svc.attempts < MaxCycles
    /\ svc' = [svc EXCEPT !.pc = "Polling",
                          !.connection_failures = 0,
                          !.attempts = @ + 1,
                          !.connected = @ + 1,
                          !.polls = @ + 1]
    /\ UNCHANGED <<cfg, notService>>

\* poller.network_info returns the nodes, links and errors (line 140)
PollReturns ==
    /\ svc.pc = "Polling"
    /\ svc' = [svc EXCEPT !.pc = "Reconciling"]
    /\ UNCHANGED <<cfg, notService>>

\* poller.network_info raises: nothing in service() catches it
PollRaises ==
    /\ svc.pc = "Polling"
    /\ svc' = [svc EXCEPT !.pc = "Failed",
                          !.error = [type |-> "Exception", host |-> "", count |-> 0]]
    /\ UNCHANGED <<cfg, notService>>

\* Seconds a cycle may have taken when it reaches line 186
ElapsedSamples ==
    {0, 1, run_period_seconds - 1, run_period_seconds,
     run_period_seconds + 1, 2 * run_period_seconds + 1}

\* Reconcile sleeping what is left of one period, or not at all when the
\* cycle overran it (no modulo)
Reconcile_NoModulo ==
    /\ svc.pc = "Reconciling"
    /\ \E total_elapsed \in ElapsedSamples :
          IF cfg.run_once
          THEN svc' = [svc EXCEPT !.pc = "Stopped",
                                  !.collector_stats = @ + 1,
                                  !.total_elapsed = total_elapsed]
          ELSE LET remaining_time ==
                       IF total_elapsed > run_period_seconds THEN 0
                       ELSE run_period_seconds - total_elapsed
               IN  svc' = [svc EXCEPT !.pc = "Sleeping",
                                      !.collector_stats = @ + 1,
                                      !.total_elapsed = total_elapsed,
                                      !.sleeps = Append(@, remaining_time)]
    /\ UNCHANGED <<cfg, notService>>

\* The session scope commits; then break, or sleep to the next period
\* (lines 150-196)
Reconcile ==
    /\ svc.pc = "Reconciling"
    /\ \E total_elapsed \in ElapsedSamples :
          IF cfg.run_once
          THEN svc' = [svc EXCEPT !.pc = "Stopped",
                                  !.collector_stats = @ + 1,
                                  !.total_elapsed = total_elapsed]
          ELSE LET remaining_time ==
                       run_period_seconds - (total_elapsed % run_period_seconds)
               IN  svc' = [svc EXCEPT !.pc = "Sleeping",
                                      !.collector_stats = @ + 1,
                                      !.total_elapsed = total_elapsed,
                                      !.sleeps = Append(@, remaining_time)]
    /\ UNCHANGED <<cfg, notService>>

\* The session scope raises (a database error): nothing in service() catches it
ReconcileRaises ==
    /\ svc.pc = "Reconciling"
    /\ svc' = [svc EXCEPT !.pc = "Failed",
                          !.error = [type |-> "OperationalError", host |-> "", count |-> 0]]
    /\ UNCHANGED <<cfg, notService>>

\* asyncio.sleep(remaining_time) returns: the next cycle (line 196)
SleepWake ==
    /\ svc.pc = "Sleeping"
    /\ svc' = [svc EXCEPT !.pc = "Connecting"]
    /\ UNCHANGED <<cfg, notService>>

NextService ==
    \/ ConnectFails
    \/ RetryWake
    \/ ConnectOk
    \/ PollReturns
    \/ PollRaises
    \/ Reconcile
    \/ ReconcileRaises
    \/ SleepWake

SpecService == InitService /\ [][NextService]_vars

\* C3: with max_retries = N >= 1, run_once false and a connect that has failed
\* at every attempt, the loop makes at most N attempts, has slept one full
\* polling period after each attempt but the N-th, has never polled or
\* reconciled, and after the N-th attempt is out with a ServiceError that
\* names the host and N.
C3_RetriesThenAborts ==
    (svc.connected = 0 /\ ~cfg.run_once) =>
        /\ svc.pc \in {"Connecting", "RetrySleep", "Aborted"}
        /\ svc.polls = 0
        /\ svc.attempts <= cfg.max_retries
        /\ \A i \in 1..Len(svc.sleeps) : svc.sleeps[i] = 60 * cfg.polling_period
        /\ svc.pc = "RetrySleep" =>
              Len(svc.sleeps) = svc.attempts /\ svc.attempts < cfg.max_retries
        /\ svc.pc = "Connecting" =>
              Len(svc.sleeps) = svc.attempts /\ svc.attempts < cfg.max_retries
        /\ svc.pc = "Aborted" <=> svc.attempts = cfg.max_retries
        /\ svc.pc = "Aborted" =>
              /\ Len(svc.sleeps) = cfg.max_retries - 1
              /\ svc.error = [type |-> "ServiceError", host |-> cfg.local_node,
                              count |-> cfg.max_retries]

\* C3's case: max_retries = 2, two failed connects, one sleep between them
C3_Witness ==
    /\ ~cfg.run_once
    /\ cfg.max_retries = 2
    /\ svc.connected = 0
    /\ svc.pc = "Aborted"
    /\ svc.attempts = 2
    /\ svc.sleeps = <<60 * cfg.polling_period>>
    /\ svc.error.count = 2

\* The loop has been left by an exception
ExitedAbnormally == svc.pc \in {"Aborted", "Failed"}

\* C18: the service loop exits abnormally only through Aborted, a ServiceError
\* that carries a reason: no failure of a cycle (connect, stream read, polling,
\* reconciliation) leaves the loop in another way, and Aborted is raised only
\* from the Connecting state
C18_OnlyAbortedLeavesLoop ==
    /\ [](ExitedAbnormally =>
             /\ svc.pc = "Aborted"
             /\ svc.error = [type |-> "ServiceError", host |-> cfg.local_node,
                             count |-> svc.connection_failures])
    /\ [][(svc.pc # "Aborted" /\ svc'.pc = "Aborted") => svc.pc = "Connecting"]_vars

\* C19: with run_once set the loop makes exactly one connect attempt and
\* always ends: after a connect that succeeds it runs one poll and one
\* reconciliation and stops normally, without sleeping and not Aborted; after
\* a connect that fails it aborts at once, whatever max_retries is, without
\* sleeping or retrying
C19_RunOnceSingleCycle ==
    cfg.run_once =>
        /\ svc.attempts <= 1
        /\ svc.sleeps = <<>>
        /\ svc.attempts = 0 => svc.pc = "Connecting"
        /\ (svc.attempts = 1 /\ svc.connected = 0) =>
              /\ svc.pc = "Aborted"
              /\ svc.polls = 0
              /\ svc.error = [type |-> "ServiceError", host |-> cfg.local_node,
                              count |-> 1]
        /\ svc.connected = 1 =>
              /\ svc.pc \in {"Polling", "Reconciling", "Stopped"}
              /\ svc.polls = 1
              /\ svc.collector_stats = (IF svc.pc = "Stopped" THEN 1 ELSE 0)

\* C24: in perpetual mode the loop aborts only when the connect failures
\* since the last successful connect equal max_retries: a successful connect
\* sets the counter to 0, a failed one adds one to it, the counter is 0 at
\* every entry to Polling, and it is below max_retries in every state other
\* than Aborted.
C24_ConsecutiveFailuresAbort ==
    /\ [](~cfg.run_once =>
            /\ svc.pc = "Aborted" <=> svc.connection_failures = cfg.max_retries
            /\ svc.pc # "Aborted" => svc.connection_failures < cfg.max_retries
            /\ svc.pc = "Polling" => svc.connection_failures = 0)
    /\ [][~cfg.run_once =>
            /\ svc'.connected = svc.connected + 1 =>
                  svc'.connection_failures = 0 /\ svc'.pc = "Polling"
            /\ (svc'.attempts = svc.attempts + 1 /\ svc'.connected = svc.connected) =>
                  svc'.connection_failures = svc.connection_failures + 1
            /\ svc'.attempts = svc.attempts =>
                  svc'.connection_failures = svc.connection_failures]_vars

\* C24's case: with max_retries = 2, a failure, a success and a failure: two
\* failures in all, and the loop goes on
C24_Witness ==
    /\ ~cfg.run_once
    /\ cfg.max_retries = 2
    /\ svc.attempts = 3
    /\ svc.connected = 1
    /\ Len(svc.sleeps) = 3
    /\ svc.connection_failures = 1
    /\ svc.pc = "RetrySleep"

\* C25: after every completed cycle in perpetual mode the loop sleeps
\* period - (elapsed mod period), elapsed being measured from the start of
\* that cycle: more than 0 and at most one period, and elapsed + sleep is a
\* multiple of the period, also when the cycle took longer than a period.
C25_SleepToPeriodBoundary ==
    svc.pc = "Sleeping" =>
        LET slept == svc.sleeps[Len(svc.sleeps)]
            period == 60 * cfg.polling_period
        IN  /\ ~cfg.run_once
            /\ slept = period - (svc.total_elapsed % period)
            /\ slept > 0
            /\ slept <= period
            /\ (svc.total_elapsed + slept) % period = 0

\* C25's case: a cycle that took one second more than two periods is
\* followed by a sleep of one second less than a period
C25_Witness ==
    /\ svc.pc = "Sleeping"
    /\ svc.total_elapsed = 2 * 60 * cfg.polling_period + 1
    /\ svc.sleeps[Len(svc.sleeps)] = 60 * cfg.polling_period - 1

(***************************************************************************)
(* The stream specification.                                               *)
(***************************************************************************)
InitStream ==
    /\ stream \in SeqsUpTo(Lines, MaxLines)
    /\ StreamStart
    /\ ServiceStart
    /\ cfg = DefaultCfg
    /\ MergeStart
    /\ DbStart
    /\ PollStart
    /\ expire = DefaultExpire

\* The first __anext__ of a consumer.  get_network_info creates the task
\* that consumes olsr.nodes and runs on into the drain of olsr.links: the
\* node task first runs when the drain has suspended.
Anext(c) ==
    /\ pc[c] = "ready"
    /\ c = "nodes" => pc["links"] # "ready"
    /\ LET r == RunFrom(AnextEntry(olsr, c), olsr, c, yielded[c])
       IN  /\ olsr' = r.o
           /\ pc' = [pc EXCEPT ![c] = r.pc]
           /\ yielded' = [yielded EXCEPT ![c] = r.out]
    /\ UNCHANGED <<stream, pos, notStream>>

\* readline() returns a line to the consumer that holds the lock.  When the
\* routing raises (UnicodeDecodeError of decode, ValueError of float) the
\* line was read and counted, "async with" releases the lock and the
\* exception leaves __anext__
ReadLine(c) ==
    /\ pc[c] = "reading"
    /\ pos < Len(stream)
    /\ pos' = pos + 1
    /\ \E routed \in {RouteLine(olsr, stream[pos + 1])} :
          LET o1 == Release(routed.o)
              r  == RunFrom(AnextAfterLock(o1, c), o1, c, yielded[c])
          IN  IF routed.raised # ""
              THEN /\ olsr' = o1
                   /\ pc' = [pc EXCEPT ![c] = "raised"]
                   /\ UNCHANGED yielded
              ELSE /\ olsr' = r.o
                   /\ pc' = [pc EXCEPT ![c] = r.pc]
                   /\ yielded' = [yielded EXCEPT ![c] = r.out]
    /\ UNCHANGED <<stream, notStream>>

\* readline() raises with nothing read (the connection was reset): "async
\* with" releases the lock and the exception leaves __anext__
ReadFails(c) ==
    /\ pc[c] = "reading"
    /\ olsr' = Release(olsr)
    /\ pc' = [pc EXCEPT ![c] = "raised"]
    /\ UNCHANGED <<stream, pos, yielded, notStream>>

\* readline() returns b"": the end of the stream
ReadEof(c) ==
    /\ pc[c] = "reading"
    /\ pos = Len(stream)
    /\ olsr' = [olsr EXCEPT !.finished = TRUE, !.closed = @ + 1]
    /\ pc' = [pc EXCEPT ![c] = "closing"]
    /\ UNCHANGED <<stream, pos, yielded, notStream>>

\* writer.wait_closed() returns; _populate_queues returns and the lock is released
WaitClosed(c) ==
    /\ pc[c] = "closing"
    /\ LET o1 == Release(olsr)
           r  == RunFrom(AnextAfterLock(o1, c), o1, c, yielded[c])
       IN  /\ olsr' = r.o
           /\ pc' = [pc EXCEPT ![c] = r.pc]
           /\ yielded' = [yielded EXCEPT ![c] = r.out]
    /\ UNCHANGED <<stream, pos, notStream>>

\* writer.wait_closed() raises (the connection was lost with an error): the
\* stream is finished and closed, "async with" releases the lock and the
\* exception leaves __anext__
WaitClosedRaises(c) ==
    /\ pc[c] = "closing"
    /\ olsr' = Release(olsr)
    /\ pc' = [pc EXCEPT ![c] = "raised"]
    /\ UNCHANGED <<stream, pos, yielded, notStream>>

\* Wake without the check of `finished` that opens _populate_queues
Wake_NoFinishedCheck(c) ==
    /\ pc[c] = "waiting"
    /\ ~olsr.locked
    /\ olsr.waiters # <<>>
    /\ Head(olsr.waiters) = c
    /\ olsr' = [olsr EXCEPT !.waiters = Tail(@), !.locked = TRUE, !.reads = @ + 1]
    /\ pc' = [pc EXCEPT ![c] = "reading"]
    /\ UNCHANGED <<stream, pos, yielded, notStream>>

\* The first waiter gets the released lock and calls _populate_queues
Wake(c) ==
    /\ pc[c] = "waiting"
    /\ ~olsr.locked
    /\ olsr.waiters # <<>>
    /\ Head(olsr.waiters) = c
    /\ LET o1 == [olsr EXCEPT !.waiters = Tail(@), !.locked = TRUE]
       IN  IF o1.finished
           THEN LET o2 == Release(o1)
                    r  == RunFrom(AnextAfterLock(o2, c), o2, c, yielded[c])
                IN  /\ olsr' = r.o
                    /\ pc' = [pc EXCEPT ![c] = r.pc]
                    /\ yielded' = [yielded EXCEPT ![c] = r.out]
           ELSE /\ olsr' = [o1 EXCEPT !.reads = @ + 1]
                /\ pc' = [pc EXCEPT ![c] = "reading"]
                /\ UNCHANGED yielded
    /\ UNCHANGED <<stream, pos, notStream>>

NextStream ==
    \E c \in Consumers :
        \/ Anext(c)
        \/ ReadLine(c)
        \/ ReadFails(c)
        \/ ReadEof(c)
        \/ WaitClosed(c)
        \/ WaitClosedRaises(c)
        \/ Wake(c)

SpecStream == InitStream /\ [][NextStream]_vars

\* The event loop runs every task that is ready: a task that was created, a
\* waiter whose lock was released, a close that completed.  Nothing makes the
\* daemon send a line or close the connection.
SpecStreamFair ==
    /\ InitStream
    /\ [][NextStream]_vars
    /\ \A c \in Consumers :
          /\ WF_vars(Anext(c))
          /\ WF_vars(Wake(c))
          /\ WF_vars(WaitClosed(c) \/ WaitClosedRaises(c))

(***************************************************************************)
(* Properties of the stream.                                               *)
(***************************************************************************)
NoDuplicates(s) == \A i, j \in 1..Len(s) : i # j => s[i] # s[j]

\* The lines readline() has returned so far
LinesRead == SubSeq(stream, 1, pos)

\* What _populate_queues matches of a line: its text decoded and stripped,
\* "" for bytes that are not UTF-8
line_str(line_bytes) == rstrip(decode(line_bytes).text)

\* The groups the two patterns match on each line of the model
Matches ==
    {[line |-> l, node |-> NODE_REGEX(line_str(l)), link |-> LINK_REGEX(line_str(l))] :
        l \in Lines}

\* Those of the i-th line of the stream
MatchOf(i) == CHOOSE m \in Matches : m.line = stream[i]

NodeLinesRead == {i \in 1..pos : MatchOf(i).node # <<>>}

LinkLinesRead == {i \in 1..pos : MatchOf(i).link # <<>>}

\* The address of a node line, the pair and the label of a link line
NodeAddress(i) == MatchOf(i).node[1]

LinkPair(i) == <<MatchOf(i).link[1], MatchOf(i).link[2]>>

LinkLabel(i) == MatchOf(i).link[3]

NoneRaised == \A c \in Consumers : pc[c] # "raised"

\* C1: when the nodes sequence has ended (and no read-and-route step raised),
\* every distinct address on a node-pattern line that was read has been
\* yielded by `nodes` exactly once, none is left in the nodes buffer, and the
\* repetitions are what the duplicate-node counter counts.
C1_EachAddressYieldedOnce ==
    /\ NoDuplicates(yielded["nodes"])
    /\ olsr.stats["duplicate node"]
          = Cardinality(NodeLinesRead)
            - Cardinality({NodeAddress(i) : i \in NodeLinesRead})
    /\ (pc["nodes"] = "done" /\ NoneRaised) =>
          /\ olsr.queue["nodes"] = <<>>
          /\ Range(yielded["nodes"]) = {NodeAddress(i) : i \in NodeLinesRead}

\* What the labels of the model's lines are worth
LabelValue(label) ==
    CASE label = <<"1", ".", "0", "0", "0">> -> Cost(<<1>>, 0)
      [] label = <<"2", ".", "5", "0", "0">> -> Cost(<<5>>, 0 - 1)

\* The first line read that carries the pair of `link`
FirstOccurrence(link) ==
    CHOOSE i \in LinkLinesRead :
        /\ LinkPair(i) = <<link.source, link.destination>>
        /\ \A j \in LinkLinesRead :
              LinkPair(j) = <<link.source, link.destination>>
                 => i <= j

\* C2: no two links yielded by `links` have the same (source, destination);
\* a repeated pair only increments the duplicate-link counter; a yielded
\* link costs 99.99 when the label of the pair's first occurrence is INFINITE
\* and that label's numeric value otherwise.
C2_LinksUniqueWithCost ==
    LET out == yielded["links"]
    IN  /\ \A i, j \in 1..Len(out) :
              i # j => <<out[i].source, out[i].destination>>
                         # <<out[j].source, out[j].destination>>
        /\ olsr.stats["duplicate link"]
              = Cardinality(LinkLinesRead)
                - Cardinality({LinkPair(i) : i \in LinkLinesRead})
        /\ \A i \in 1..Len(out) :
              /\ \E k \in LinkLinesRead :
                    LinkPair(k) = <<out[i].source, out[i].destination>>
              /\ LET label == LinkLabel(FirstOccurrence(out[i]))
                 IN  out[i].cost = IF label = INFINITE THEN Cost(<<7, 0, 3, 6, 1, 7, 0, 7, 3, 0, 3, 2, 4, 6, 2, 3>>, 0 - 46)
                                   ELSE LabelValue(label)

\* C2's case: a pair was repeated, and a link of an INFINITE label was yielded
C2_Witness ==
    /\ olsr.stats["duplicate link"] > 0
    /\ \E i \in 1..Len(yielded["links"]) : yielded["links"][i].cost = Cost(<<7, 0, 3, 6, 1, 7, 0, 7, 3, 0, 3, 2, 4, 6, 2, 3>>, 0 - 46)
    /\ \E i \in 1..Len(yielded["links"]) : yielded["links"][i].cost = Cost(<<5>>, 0 - 1)

\* The consumers inside _populate_queues: in readline() or in wait_closed()
InPopulateQueues == {c \in Consumers : pc[c] \in {"reading", "closing"}}

\* C11: at every moment at most one of the two consumers is inside
\* _populate_queues (the read of the stream and the routing of the line), and
\* that consumer holds the lock.
C11_OneReaderAtATime ==
    /\ Cardinality(InPopulateQueues) <= 1
    /\ InPopulateQueues # {} => olsr.locked

\* C11's case: a consumer is in readline() with a line already read, while
\* the other one waits for the lock
C11_Witness ==
    /\ \E c \in Consumers : pc[c] = "reading"
    /\ \E c \in Consumers : pc[c] = "waiting"
    /\ pos > 0

Ended(c) == pc[c] \in {"done", "raised"}

\* get_network_info has left the stream: the drain of `links` raised, or it
\* ended and the node task has ended too (line 232)
CycleOver ==
    \/ pc["links"] = "raised"
    \/ pc["links"] = "done" /\ Ended("nodes")

\* C16: when a cycle ends, whether it completed or the read of the stream
\* failed, the connection to the routing daemon that the cycle opened has
\* been closed.
C16_ConnectionClosed == CycleOver => olsr.closed = 1

\* The (source, destination) pairs of the links in a sequence
Pairs(links) == {<<links[i].source, links[i].destination>> : i \in 1..Len(links)}

\* C20: when the drain of `links` has ended (and no read-and-route step
\* raised), the drained list holds every distinct (source, destination) link
\* that was read from the stream, however the drain interleaved with the node
\* poller: no link is left in the links buffer at the end of the stream
C20_DrainKeepsEveryLink ==
    (pc["links"] = "done" /\ NoneRaised) =>
        /\ olsr.queue["links"] = <<>>
        /\ Pairs(yielded["links"])
              = {LinkPair(i) : i \in LinkLinesRead}

\* C10: once the zero-length read was observed, the finished flag stays set,
\* the connection was closed exactly once, no consumer issues another read,
\* both sequences eventually end, and an advance of a view whose buffer is
\* empty ends the sequence.
C10_EndOfStream ==
    /\ [][olsr.finished => olsr'.finished]_vars
    /\ [](olsr.closed = IF olsr.finished THEN 1 ELSE 0)
    /\ [][olsr.finished => (olsr'.reads = olsr.reads /\ pos' = pos)]_vars
    /\ [](olsr.finished => <>(\A c \in Consumers : Ended(c)))
    /\ [](\A c \in Consumers :
             (olsr.finished /\ olsr.queue[c] = <<>>)
                => AnextEntry(olsr, c) = "StopAsyncIteration")

\* C10's case: the end of the stream was read while the other consumer waited
\* for the lock, and both sequences have ended
C10_Witness ==
    /\ olsr.finished
    /\ olsr.closed = 1
    /\ \A c \in Consumers : pc[c] = "done"
    /\ olsr.stats["lines processed"] > 0
    /\ olsr.reads = pos + 1

(***************************************************************************)
(* Poller.get_network_info: the merge of the polled NodeResult list with   *)
(* the OLSR links.  An optional cost is <<>> (None) or <<cost>>; an error  *)
(* is "" (None) or the name of a PollingError.                             *)
(***************************************************************************)
NoSystemInfo ==
    [node_name |-> "", api_version_tuple |-> <<0, 0>>, links |-> <<>>, link_count |-> 0]

\* The name a node declares in its sysinfo.json, and the name the resolver
\* (lookup_name) gives for its address
\* The host number of one of the model's addresses: its last digit
Host(ip) == Digit(ip[Len(ip)])

DeclaredName(ip) == <<"K7AAA", "K7BBB", "K7CCC", "K7DDD">>[Host(ip)]

ResolvedName(ip) == <<"dns-1", "dns-2", "dns-3", "dns-4">>[Host(ip)]

PolledAddrs == {Addr(10, 1), Addr(10, 2), Addr(10, 3)}

NextAddr(ip) == Addr(10, (Host(ip) % 3) + 1)

PrevAddr(ip) == Addr(10, ((Host(ip) + 1) % 3) + 1)

\* A link as a node reports it in sysinfo.json (aredn.LinkInfo)
ReportedLink(ip, dest, cost) ==
    [source |-> DeclaredName(ip), destination |-> DeclaredName(dest),
     destination_ip |-> dest, type |-> "RF", interface |-> "wlan0",
     olsr_cost |-> cost]

\* _handle_connection_error / _handle_response_error: a NodeResult with an
\* error and the resolver's name (which may be empty)
FailedResult(ip, name, error) ==
    [ip_address |-> ip, name |-> name, has_info |-> FALSE,
     system_info |-> NoSystemInfo, error |-> error]

\* _poll_node, lines 391-396: a NodeResult with the node's SystemInfo
PolledResult(ip, api, links) ==
    [ip_address |-> ip, name |-> DeclaredName(ip), has_info |-> TRUE,
     system_info |-> [node_name |-> DeclaredName(ip), api_version_tuple |-> api,
                      links |-> links, link_count |-> Len(links)],
     error |-> ""]

\* The outcomes of polling one address that the model draws from
Outcomes(ip) ==
    { FailedResult(ip, ResolvedName(ip), "HTTP_ERROR"),
      FailedResult(ip, "", "TIMEOUT_ERROR"),
      PolledResult(ip, <<1, 7>>, <<>>),
      PolledResult(ip, <<1, 8>>, <<ReportedLink(ip, NextAddr(ip), <<>>),
                                  ReportedLink(ip, PrevAddr(ip), <<>>)>>),
      PolledResult(ip, <<1, 10>>, <<ReportedLink(ip, NextAddr(ip), <<Cost(<<3>>, 0)>>)>>) }

\* The OLSR links the model draws from: one per (source, destination)
OlsrLinkPool ==
    { from_strings(Addr(10, 1), Addr(10, 2), <<"1", ".", "0", "0", "0">>),
      from_strings(Addr(10, 1), Addr(10, 3), <<"2", ".", "5", "0", "0">>),
      from_strings(Addr(10, 2), Addr(10, 1), INFINITE),
      from_strings(Addr(10, 2), Addr(10, 4), <<"1", ".", "0", "0", "0">>) }

\* tuple comparison a < b of two (major, minor) version tuples
TupleLess(a, b) == a[1] < b[1] \/ (a[1] = b[1] /\ a[2] < b[2])

\* Lines 236-240: {node.ip_address: node.name for node in node_results
\*                 if all((node.name, node.ip_address))}
ip_name_map(results) ==
    LET kept == {i \in 1..Len(results) :
                    results[i].name # "" /\ results[i].ip_address # NoAddr}
        last(ip) == CHOOSE i \in kept :
                        /\ results[i].ip_address = ip
                        /\ \A j \in kept : results[j].ip_address = ip => j <= i
    IN  [ip \in {results[i].ip_address : i \in kept} |-> results[last(ip)].name]

\* Lines 243-245: the OLSR links of each source address, in their order
olsr_links_by_ip(links) ==
    [ip \in {links[i].source : i \in 1..Len(links)} |->
        SelectSeq(links, LAMBDA l : l.source = ip)]

\* dict.get(ip, [])
LinksOf(by_ip, ip) == IF ip \in DOMAIN by_ip THEN by_ip[ip] ELSE <<>>

\* _populate_cost_from_olsr giving the infinite cost to a link that OLSR
\* does not have (a default for the skipped assignment)
_populate_cost_from_olsr_Defaulted(links, node_olsr) ==
    [i \in 1..Len(links) |->
        LET found == {j \in 1..Len(node_olsr) :
                         node_olsr[j].destination = links[i].destination_ip}
        IN  IF found = {} THEN [links[i] EXCEPT !.olsr_cost = <<InfiniteCost>>]
            ELSE [links[i] EXCEPT
                     !.olsr_cost = <<node_olsr[CHOOSE j \in found : TRUE].cost>>]]

\* _populate_cost_from_olsr: the reported links after the call
_populate_cost_from_olsr(links, node_olsr) ==
    IF Len(node_olsr) = 0 THEN links
    ELSE LET last(d) == CHOOSE i \in 1..Len(node_olsr) :
                            /\ node_olsr[i].destination = d
                            /\ \A j \in 1..Len(node_olsr) : node_olsr[j].destination = d => j <= i
             cost_by_destination ==
                 [d \in {node_olsr[i].destination : i \in 1..Len(node_olsr)} |-> node_olsr[last(d)].cost]
         IN  [i \in 1..Len(links) |->
                 IF links[i].destination_ip \notin DOMAIN cost_by_destination
                 THEN links[i]
                 ELSE [links[i] EXCEPT
                          !.olsr_cost = <<cost_by_destination[links[i].destination_ip]>>]]

\* FallbackLinks leaving the loop at the first unmapped destination
\* (break for continue)
RECURSIVE FallbackLinks_Break(_, _, _, _)
FallbackLinks_Break(sys_info, node_olsr_links, names, acc) ==
    IF node_olsr_links = <<>> THEN acc
    ELSE LET link == Head(node_olsr_links)
             counted == [acc EXCEPT !.link_count = @ + 1]
         IN  IF link.destination \notin DOMAIN names THEN counted
             ELSE FallbackLinks_Break(sys_info, Tail(node_olsr_links), names,
                      [counted EXCEPT !.links = Append(@,
                          [source |-> sys_info.node_name,
                           destination |-> names[link.destination],
                           destination_ip |-> link.destination,
                           type |-> "UNKNOWN",
                           interface |-> "unknown",
                           olsr_cost |-> <<link.cost>>])])

\* Lines 290-306: the links made from the OLSR links of one node, and the
\* node's link_count
RECURSIVE FallbackLinks(_, _, _, _)
FallbackLinks(sys_info, node_olsr_links, names, acc) ==
    IF node_olsr_links = <<>> THEN acc
    ELSE LET link == Head(node_olsr_links)
             counted == [acc EXCEPT !.link_count = @ + 1]
         IN  FallbackLinks(sys_info, Tail(node_olsr_links), names,
                 IF link.destination \notin DOMAIN names THEN counted
                 ELSE [counted EXCEPT !.links = Append(@,
                          [source |-> sys_info.node_name,
                           destination |-> names[link.destination],
                           destination_ip |-> link.destination,
                           type |-> "UNKNOWN",
                           interface |-> "unknown",
                           olsr_cost |-> <<link.cost>>])])

\* Lines 253-306, one turn of the loop: `acc` holds the lists built so far
\* and the NodeResult objects as the loop has left them
MergeNode(acc, node, names, by_ip) ==
    IF node.error # ""
    THEN [acc EXCEPT !.errors = Append(@, node), !.results = Append(@, node)]
    ELSE IF ~node.has_info
    THEN [acc EXCEPT !.results = Append(@, node)]
    ELSE LET sys_info == node.system_info
         IN  IF Len(sys_info.links) > 0
             THEN LET links == IF TupleLess(sys_info.api_version_tuple, <<1, 9>>)
                               THEN _populate_cost_from_olsr(
                                        sys_info.links, LinksOf(by_ip, node.ip_address))
                               ELSE sys_info.links
                      after == [sys_info EXCEPT !.links = links,
                                                !.link_count = Len(links)]
                  IN  [acc EXCEPT !.nodes = Append(@, after),
                                  !.links = @ \o links,
                                  !.results = Append(@, [node EXCEPT !.system_info = after])]
             ELSE IF node.ip_address \notin DOMAIN by_ip
             THEN LET after == [sys_info EXCEPT !.link_count = 0]
                  IN  [acc EXCEPT !.nodes = Append(@, after),
                                  !.results = Append(@, [node EXCEPT !.system_info = after])]
             ELSE LET fb == FallbackLinks(sys_info, by_ip[node.ip_address], names,
                                          [links |-> <<>>, link_count |-> 0])
                      after == [sys_info EXCEPT !.link_count = fb.link_count]
                  IN  [acc EXCEPT !.nodes = Append(@, after),
                                  !.links = @ \o fb.links,
                                  !.results = Append(@, [node EXCEPT !.system_info = after])]

\* MergeLoop leaving the loop at the first failed result (break for continue)
RECURSIVE MergeLoop_Break(_, _, _, _)
MergeLoop_Break(acc, results, names, by_ip) ==
    IF results = <<>> THEN acc
    ELSE IF Head(results).error # ""
    THEN [MergeNode(acc, Head(results), names, by_ip) EXCEPT
              !.results = @ \o Tail(results)]
    ELSE MergeLoop_Break(MergeNode(acc, Head(results), names, by_ip),
                         Tail(results), names, by_ip)

RECURSIVE MergeLoop(_, _, _, _)
MergeLoop(acc, results, names, by_ip) ==
    IF results = <<>> THEN acc
    ELSE MergeLoop(MergeNode(acc, Head(results), names, by_ip),
                   Tail(results), names, by_ip)

\* Poller.get_network_info from line 234 on: NetworkInfo(nodes, links,
\* node_errors), and the NodeResult objects after the call (`results`)
get_network_info(results, links) ==
    MergeLoop([nodes |-> <<>>, links |-> <<>>, errors |-> <<>>, results |-> <<>>],
              results, ip_name_map(results), olsr_links_by_ip(links))

NetworkInfo(merged) ==
    [nodes |-> merged.nodes, links |-> merged.links, errors |-> merged.errors]

(***************************************************************************)
(* The merge specification: the inputs are drawn in Init, each step is one *)
(* run of the merge on the objects as the previous run left them.          *)
(***************************************************************************)
\* Sequences over S of length at most n without a repeated key
DistinctSeqs(S, n, Key(_)) ==
    {q \in SeqsUpTo(S, n) : \A i, j \in 1..Len(q) : i # j => Key(q[i]) # Key(q[j])}

AllOutcomes == UNION {Outcomes(ip) : ip \in PolledAddrs}

ResultIp(r) == r.ip_address

LinkId(l) == <<l.source, l.destination>>

InitMerge ==
    /\ node_results \in DistinctSeqs(AllOutcomes, MaxResults, ResultIp)
    /\ olsr_links \in DistinctSeqs(OlsrLinkPool, MaxOlsrLinks, LinkId)
    /\ info = <<>>
    /\ StreamStart
    /\ stream = <<>>
    /\ ServiceStart
    /\ cfg = DefaultCfg
    /\ DbStart
    /\ PollStart
    /\ expire = DefaultExpire

GetNetworkInfo ==
    /\ Len(info) < MaxRuns
    /\ LET merged == get_network_info(node_results, olsr_links)
       IN  /\ info' = Append(info, NetworkInfo(merged))
           /\ node_results' = merged.results
    /\ UNCHANGED <<olsr_links, notMerge>>

NextMerge == GetNetworkInfo

SpecMerge == InitMerge /\ [][NextMerge]_vars

(***************************************************************************)
(* Properties of the merge.                                                *)
(***************************************************************************)
\* The results that carry a name: what an address can be resolved through
Named(ip) == {i \in 1..Len(node_results) :
                 node_results[i].ip_address = ip /\ node_results[i].name # ""}

NameFor(ip) == node_results[CHOOSE i \in Named(ip) : TRUE].name

\* The successfully polled nodes that report no link
ZeroLinkNodes ==
    {i \in 1..Len(node_results) :
        /\ node_results[i].error = ""
        /\ node_results[i].has_info
        /\ Len(node_results[i].system_info.links) = 0}

\* The links of a NetworkInfo whose source is the node of result i
ContributedFor(net, i) ==
    SelectSeq(net.links, LAMBDA l : l.source = node_results[i].system_info.node_name)

OlsrFrom(ip) == {l \in Range(olsr_links) : l.source = ip}

\* C4: for a successfully polled node that reports no link, the merge
\* contributes exactly one link per OLSR link from the node's address whose
\* destination is in the IP-to-name map: source the node's name, destination
\* the mapped name, destination IP the OLSR destination, type UNKNOWN,
\* interface unknown, cost the OLSR cost; an unmapped destination gives none.
C4_FallbackFromOlsr ==
    \A k \in 1..Len(info) : \A i \in ZeroLinkNodes :
        LET got == ContributedFor(info[k], i)
            expected ==
                { [source |-> node_results[i].system_info.node_name,
                   destination |-> NameFor(l.destination),
                   destination_ip |-> l.destination,
                   type |-> "UNKNOWN",
                   interface |-> "unknown",
                   olsr_cost |-> <<l.cost>>] :
                  l \in {x \in OlsrFrom(node_results[i].ip_address) :
                            Named(x.destination) # {}} }
        IN  /\ Range(got) = expected
            /\ Len(got) = Cardinality(expected)

\* C4's case: a node without reported links has an OLSR link that becomes a
\* link of cost 99.99 and another whose destination is unmapped
C4_Witness ==
    \E k \in 1..Len(info) : \E i \in ZeroLinkNodes :
        /\ \E j \in 1..Len(info[k].links) :
              /\ info[k].links[j].source = node_results[i].system_info.node_name
              /\ info[k].links[j].olsr_cost = <<Cost(<<7, 0, 3, 6, 1, 7, 0, 7, 3, 0, 3, 2, 4, 6, 2, 3>>, 0 - 46)>>
              /\ info[k].links[j].destination = "K7AAA"
        /\ \E l \in OlsrFrom(node_results[i].ip_address) : Named(l.destination) = {}

\* C5: no link made from the OLSR links has for destination an address
\* whose poll failed, and a failed result is in the error list only.
C5_NoLinkToFailedNode ==
    \A k \in 1..Len(info) : \A i \in 1..Len(node_results) :
        node_results[i].error # "" =>
            /\ \A j \in 1..Len(info[k].links) :
                  info[k].links[j].type = "UNKNOWN" =>
                      info[k].links[j].destination_ip # node_results[i].ip_address
            /\ node_results[i] \in Range(info[k].errors)
            /\ \A j \in 1..Len(info[k].nodes) :
                  info[k].nodes[j].node_name # node_results[i].name

BagOf(q) == [x \in Range(q) |-> Cardinality({i \in 1..Len(q) : q[i] = x})]

\* The contents of a NetworkInfo, whatever the order of its lists
Contents(a) ==
    [nodes |-> BagOf(a.nodes), links |-> BagOf(a.links), errors |-> BagOf(a.errors)]

Perms(n) == {f \in [1..n -> 1..n] : \A i, j \in 1..n : i # j => f[i] # f[j]}

Reorder(q, f) == [i \in 1..Len(q) |-> q[f[i]]]

\* C9: the merge of the same poll outcomes and OLSR links taken in any other
\* order has the same nodes, links and errors, and every further run on the
\* same inputs returns what the first run returned.
C9_MergeOrderIndependent ==
    LET here == Contents(NetworkInfo(get_network_info(node_results, olsr_links)))
    IN  /\ \A k \in 1..Len(info) : info[k] = info[1]
        /\ Len(info) > 0 => here = Contents(info[1])
        /\ \A f \in Perms(Len(node_results)) : \A g \in Perms(Len(olsr_links)) :
              Contents(NetworkInfo(get_network_info(Reorder(node_results, f),
                                                    Reorder(olsr_links, g)))) = here

\* C9's case: a second run over two results and two OLSR links, with a cost
\* taken from OLSR, a link made from OLSR and a failed node
C9_Witness ==
    /\ Len(info) = 2
    /\ Len(node_results) = 2
    /\ Len(olsr_links) = 2
    /\ Len(info[2].errors) = 1
    /\ \E j \in 1..Len(info[2].links) :
          info[2].links[j].type = "RF" /\ info[2].links[j].olsr_cost = <<Cost(<<1>>, 0)>>

\* The successfully polled nodes that report at least one link
ReportingNodes ==
    {i \in 1..Len(node_results) :
        /\ node_results[i].error = ""
        /\ node_results[i].has_info
        /\ Len(node_results[i].system_info.links) > 0}

\* The reported links of result i as the claim has them in the topology
\* result: below API 1.9 the cost of the OLSR link from the node's address
\* to the link's destination IP when there is one, nothing else changed
ExpectedReported(i) ==
    LET sys_info == node_results[i].system_info
        from(l) == {o \in OlsrFrom(node_results[i].ip_address) :
                       o.destination = l.destination_ip}
    IN  [j \in 1..Len(sys_info.links) |->
            LET l == sys_info.links[j]
            IN  IF TupleLess(sys_info.api_version_tuple, <<1, 9>>) /\ from(l) # {}
                THEN [l EXCEPT !.olsr_cost = <<(CHOOSE o \in from(l) : TRUE).cost>>]
                ELSE l]

\* C21: for a successfully polled node with at least one self-reported link,
\* the links it contributes to the topology result are exactly its
\* self-reported links, with no field changed but the cost: below API 1.9
\* the cost becomes that of the OLSR link from the node's address to the
\* link's destination IP when there is such a link and stays as it was
\* otherwise; from API 1.9 on the cost is untouched.  No link made from the
\* OLSR links is added for the node.
C21_ReportedLinksWin ==
    [][info' # info =>
          \A i \in ReportingNodes :
              /\ ContributedFor(info'[Len(info')], i) = ExpectedReported(i)
              /\ \A j \in 1..Len(info'[Len(info')].nodes) :
                    info'[Len(info')].nodes[j].node_name
                        = node_results[i].system_info.node_name
                    => info'[Len(info')].nodes[j].links = ExpectedReported(i)]_vars

\* C21's case: a node of API 1.8 reported two links without a cost; OLSR has
\* a link to the destination of one of them only, and a node of API 1.10
\* kept the cost it reported although OLSR has a link for it
C21_Witness ==
    /\ Len(info) = 1
    /\ \E j \in 1..Len(info[1].nodes) :
          /\ info[1].nodes[j].api_version_tuple = <<1, 8>>
          /\ \E a, b \in 1..Len(info[1].nodes[j].links) :
                /\ info[1].nodes[j].links[a].olsr_cost = <<Cost(<<1>>, 0)>>
                /\ info[1].nodes[j].links[b].olsr_cost = <<>>
                /\ info[1].nodes[j].links[a] \in Range(info[1].links)
                /\ info[1].nodes[j].links[b] \in Range(info[1].links)
    /\ \E i \in ReportingNodes :
          /\ node_results[i].system_info.api_version_tuple = <<1, 10>>
          /\ OlsrFrom(node_results[i].ip_address) # {}

\* The links of a NetworkInfo whose source is the node `sys_info`
LinksFrom(net, sys_info) ==
    {j \in 1..Len(net.links) : net.links[j].source = sys_info.node_name}

\* C29: in every topology result the link_count of each node is the number
\* of links of the merged list whose source is that node, for the nodes that
\* report their links and for the nodes whose links are made from the OLSR
\* links; a node with no reported link and no OLSR link stays in the node
\* list with link_count 0.
C29_LinkCountIsContributed ==
    \A k \in 1..Len(info) :
        /\ \A j \in 1..Len(info[k].nodes) :
              info[k].nodes[j].link_count
                  = Cardinality(LinksFrom(info[k], info[k].nodes[j]))
        /\ \A i \in ZeroLinkNodes :
              OlsrFrom(node_results[i].ip_address) = {} =>
                  \E j \in 1..Len(info[k].nodes) :
                      /\ info[k].nodes[j].node_name = node_results[i].system_info.node_name
                      /\ info[k].nodes[j].link_count = 0

-----------------------------------------------------------------------------
\* Reconciliation: what a cycle does to the Node and Link rows.
\* A row of Node is [wlan_mac_address, name, wlan_ip, status, last_seen] and
\* its id is its place in db.nodes; a row of Link is
\* [source, destination, status, last_seen, olsr_cost] with node ids for ends.

None == 0

MultipleResultsFound == -1

\* pendulum's days, in ticks of the clock. A cycle reads the clock at most
\* five times, and a day is longer than the work of all the cycles together.
TicksPerDay == 6 * MaxDbCycles

\* dbsession.query(Node): the ids of the rows, in the order of the table
Rows(nodes) == [i \in 1..Len(nodes) |-> i]

\* A sort by last_seen without reverse=True: oldest first
RECURSIVE SortedByLastSeen_Ascending(_, _, _)
SortedByLastSeen_Ascending(nodes, results, sorted) ==
    IF results = <<>> THEN sorted
    ELSE LET id == Head(results)
             before == SelectSeq(sorted,
                           LAMBDA j : nodes[j].last_seen <= nodes[id].last_seen)
             after == SelectSeq(sorted,
                           LAMBDA j : nodes[j].last_seen > nodes[id].last_seen)
         IN  SortedByLastSeen_Ascending(nodes, Tail(results),
                                        before \o <<id>> \o after)

\* sorted(results, key=attrgetter("last_seen"), reverse=True): stable
RECURSIVE SortedByLastSeen(_, _, _)
SortedByLastSeen(nodes, results, sorted) ==
    IF results = <<>> THEN sorted
    ELSE LET id == Head(results)
             before == SelectSeq(sorted,
                           LAMBDA j : nodes[j].last_seen >= nodes[id].last_seen)
             after == SelectSeq(sorted,
                           LAMBDA j : nodes[j].last_seen < nodes[id].last_seen)
         IN  SortedByLastSeen(nodes, Tail(results), before \o <<id>> \o after)

\* _get_most_recent: the newest of the results, the other ACTIVE ones demoted
_get_most_recent(nodes, results) ==
    IF Len(results) = 0
    THEN [nodes |-> nodes, model |-> None]
    ELSE LET sorted == SortedByLastSeen(nodes, results, <<>>)
             older == Range(Tail(sorted))
         IN  [nodes |-> [i \in 1..Len(nodes) |->
                            IF i \in older /\ nodes[i].status = "ACTIVE"
                            THEN [nodes[i] EXCEPT !.status = "INACTIVE"]
                            ELSE nodes[i]],
              model |-> Head(sorted)]

\* get_db_model whose first query, too, looks at the ACTIVE rows only
get_db_model_ActiveOnly(nodes, node) ==
    LET hardware == _get_most_recent(nodes, SelectSeq(Rows(nodes),
                    LAMBDA i : /\ nodes[i].wlan_mac_address = node.wlan_mac_address
                               /\ nodes[i].status = "ACTIVE"))
        named == _get_most_recent(hardware.nodes, SelectSeq(Rows(hardware.nodes),
                    LAMBDA i : /\ hardware.nodes[i].name = node.node_name
                               /\ hardware.nodes[i].status = "ACTIVE"))
    IN  IF hardware.model # None THEN hardware ELSE named

\* get_db_model: the three queries in turn, the first with a row wins
get_db_model(nodes, node) ==
    LET both == _get_most_recent(nodes, SelectSeq(Rows(nodes),
                    LAMBDA i : /\ nodes[i].wlan_mac_address = node.wlan_mac_address
                               /\ nodes[i].name = node.node_name))
        hardware == _get_most_recent(both.nodes, SelectSeq(Rows(both.nodes),
                    LAMBDA i : /\ both.nodes[i].wlan_mac_address = node.wlan_mac_address
                               /\ both.nodes[i].status = "ACTIVE"))
        named == _get_most_recent(hardware.nodes, SelectSeq(Rows(hardware.nodes),
                    LAMBDA i : /\ hardware.nodes[i].name = node.node_name
                               /\ hardware.nodes[i].status = "ACTIVE"))
    IN  IF both.model # None THEN both
        ELSE IF hardware.model # None THEN hardware
        ELSE named

\* One turn of save_nodes' loop
SaveNode(st, node) ==
    LET found == get_db_model(st.nodes, node)
        row == [wlan_mac_address |-> node.wlan_mac_address,
                name |-> node.node_name,
                wlan_ip |-> node.wlan_ip_address,
                status |-> "ACTIVE",
                last_seen |-> st.clock]
        bumped == [st.count EXCEPT !["nodes: total"] = @ + 1]
    IN  IF found.model = None
        THEN [nodes |-> Append(found.nodes, row),
              clock |-> st.clock + 1,
              count |-> [bumped EXCEPT !["nodes: added"] = @ + 1]]
        ELSE [nodes |-> [found.nodes EXCEPT ![found.model] = row],
              clock |-> st.clock + 1,
              count |-> [bumped EXCEPT !["nodes: updated"] = @ + 1]]

RECURSIVE save_nodes(_, _)
save_nodes(st, nodes) ==
    IF nodes = <<>> THEN st
    ELSE save_nodes(SaveNode(st, Head(nodes)), Tail(nodes))

\* .one_or_none() over the ACTIVE nodes with this wlan_ip
NodeByIp(nodes, ip) ==
    LET found == SelectSeq(Rows(nodes),
                     LAMBDA i : nodes[i].wlan_ip = ip /\ nodes[i].status = "ACTIVE")
    IN  IF Len(found) = 0 THEN None
        ELSE IF Len(found) = 1 THEN found[1]
        ELSE MultipleResultsFound

\* One turn of save_links' loop
SaveLink(st, link) ==
    LET source == NodeByIp(st.nodes, link.source)
        destination == NodeByIp(st.nodes, link.destination)
        total == [st.count EXCEPT !["links: total"] = @ + 1]
        model == {l \in st.links : l.source = source /\ l.destination = destination}
        row == [source |-> source, destination |-> destination,
                status |-> "CURRENT", last_seen |-> st.clock,
                olsr_cost |-> link.cost]
    IN  IF source = MultipleResultsFound \/ destination = MultipleResultsFound
        THEN [st EXCEPT !.raised = TRUE, !.count = total]
        ELSE IF source = None \/ destination = None
        THEN [st EXCEPT !.count = [total EXCEPT !["links: errors"] = @ + 1]]
        ELSE IF model = {}
        THEN [st EXCEPT !.links = @ \cup {row}, !.clock = @ + 1,
                        !.count = [total EXCEPT !["links: new"] = @ + 1]]
        ELSE [st EXCEPT !.links = (@ \ model) \cup {row}, !.clock = @ + 1,
                        !.count = [total EXCEPT !["links: updated"] = @ + 1]]

RECURSIVE SaveLinksLoop(_, _)
SaveLinksLoop(st, links) ==
    IF links = <<>> \/ st.raised THEN st
    ELSE SaveLinksLoop(SaveLink(st, Head(links)), Tail(links))

\* save_links without the update that opens it
Downgrade_Skipped(links) == links

\* The update that opens save_links: every CURRENT link becomes RECENT
Downgrade(links) ==
    {IF l.status = "CURRENT" THEN [l EXCEPT !.status = "RECENT"] ELSE l : l \in links}

save_links(st, links) ==
    SaveLinksLoop([st EXCEPT !.links = Downgrade(@)], links)

\* expire_data with the windows taken in clock ticks instead of days
expire_data_WindowInTicks(st, nodes_expire, links_expire) ==
    LET timestamp == st.clock
        links_cutoff == timestamp - links_expire
        nodes_cutoff == timestamp - nodes_expire
    IN  [st EXCEPT
            !.links = {IF l.status = "RECENT" /\ l.last_seen < links_cutoff
                       THEN [l EXCEPT !.status = "INACTIVE"]
                       ELSE l : l \in st.links},
            !.nodes = [i \in 1..Len(st.nodes) |->
                          IF /\ st.nodes[i].status = "ACTIVE"
                             /\ st.nodes[i].last_seen < nodes_cutoff
                          THEN [st.nodes[i] EXCEPT !.status = "INACTIVE"]
                          ELSE st.nodes[i]],
            !.clock = @ + 1,
            !.count = [@ EXCEPT
                !["expired: links"] =
                    Cardinality({l \in st.links : l.status = "RECENT"
                                                   /\ l.last_seen < links_cutoff}),
                !["expired: nodes"] =
                    Cardinality({i \in 1..Len(st.nodes) :
                                    /\ st.nodes[i].status = "ACTIVE"
                                    /\ st.nodes[i].last_seen < nodes_cutoff})]]

\* expire_data: RECENT links and ACTIVE nodes last seen before the cutoff
\* become INACTIVE
expire_data(st, nodes_expire, links_expire) ==
    LET timestamp == st.clock
        links_cutoff == timestamp - links_expire * TicksPerDay
        nodes_cutoff == timestamp - nodes_expire * TicksPerDay
        old_links == {l \in st.links :
                         l.status = "RECENT" /\ l.last_seen < links_cutoff}
        old_nodes == {i \in 1..Len(st.nodes) :
                         /\ st.nodes[i].status = "ACTIVE"
                         /\ st.nodes[i].last_seen < nodes_cutoff}
    IN  [st EXCEPT
            !.links = {IF l \in old_links THEN [l EXCEPT !.status = "INACTIVE"]
                       ELSE l : l \in st.links},
            !.nodes = [i \in 1..Len(st.nodes) |->
                          IF i \in old_nodes
                          THEN [st.nodes[i] EXCEPT !.status = "INACTIVE"]
                          ELSE st.nodes[i]],
            !.clock = @ + 1,
            !.count = [@ EXCEPT !["expired: links"] = Cardinality(old_links),
                                !["expired: nodes"] = Cardinality(old_nodes)]]

\* What a poll can return to a cycle. The nodes: one, a second one, the first
\* one's hardware answering under the second one's name at the second one's
\* address, and new hardware under the second one's name at the first one's
\* address; at most one node answers at an address.
SystemInfo(mac, name, ip) ==
    [wlan_mac_address |-> mac, node_name |-> name, wlan_ip_address |-> ip]

SystemInfos ==
    {SystemInfo("00:00:00:00:00:01", "K7AAA", Addr(10, 1)),
     SystemInfo("00:00:00:00:00:02", "K7BBB", Addr(10, 2)),
     SystemInfo("00:00:00:00:00:01", "K7BBB", Addr(10, 2)),
     SystemInfo("00:00:00:00:00:03", "K7BBB", Addr(10, 1))}

WlanIps == {n.wlan_ip_address : n \in SystemInfos}

PolledNodes ==
    {q \in SeqsUpTo(SystemInfos, Cardinality(WlanIps)) :
        \A i, j \in 1..Len(q) :
            i # j => q[i].wlan_ip_address # q[j].wlan_ip_address}

\* The links: between the two addresses, and to an address no node has
LinkInfo(source, destination, cost) ==
    [source |-> source, destination |-> destination, cost |-> cost]

PolledLinks ==
    {<<>>,
     <<LinkInfo(Addr(10, 1), Addr(10, 2), 1000)>>,
     <<LinkInfo(Addr(10, 2), Addr(10, 1), 2000),
       LinkInfo(Addr(10, 1), Addr(10, 3), 1000)>>}

\* The errors: the addresses of the mesh that returned no node timed out
PolledErrors(nodes) ==
    LET failed == SelectSeq(<<Addr(10, 1), Addr(10, 2)>>,
                            LAMBDA ip : \A i \in 1..Len(nodes) :
                                            nodes[i].wlan_ip_address # ip)
    IN  [i \in 1..Len(failed) |->
            FailedResult(failed[i], ResolvedName(failed[i]), "TIMEOUT_ERROR")]

GapDays == {0, 1}

\* Lines 175-183: the CollectorStat row of a cycle
CollectorStat(nodes, links, errors) ==
    [node_count |-> Len(nodes), link_count |-> Len(links), error_count |-> Len(errors)]

\* The session's view of a cycle's work
Session == [nodes |-> db.nodes, links |-> db.links, clock |-> clock,
            count |-> count, raised |-> FALSE]

InitDb ==
    /\ DbStart
    /\ PollStart
    /\ expire = DefaultExpire
    /\ stream = <<>>
    /\ StreamStart
    /\ ServiceStart
    /\ cfg = DefaultCfg
    /\ MergeStart

\* The poll of a cycle returns, some days after the last cycle, and the
\* summary starts empty
PollDone ==
    /\ phase = "idle"
    /\ cycles < MaxDbCycles
    /\ \E days \in GapDays, nodes \in PolledNodes, links \in PolledLinks :
          /\ cycles = 0 => days = 0
          /\ clock' = clock + days * TicksPerDay
          /\ polled' = [nodes |-> nodes, links |-> links,
                        errors |-> PolledErrors(nodes)]
    /\ count' = NoCounts
    /\ phase' = "save_nodes"
    /\ cycles' = cycles + 1
    /\ UNCHANGED <<db, committed, expire, notDb>>

SaveNodes ==
    /\ phase = "save_nodes"
    /\ LET st == save_nodes([nodes |-> db.nodes, clock |-> clock, count |-> count],
                            polled.nodes)
       IN  /\ db' = [db EXCEPT !.nodes = st.nodes]
           /\ clock' = st.clock
           /\ count' = st.count
    /\ phase' = "save_links"
    /\ UNCHANGED <<committed, polled, expire, cycles, notDb>>

SaveLinks ==
    /\ phase = "save_links"
    /\ LET st == save_links(Session, polled.links)
       IN  /\ ~st.raised
           /\ db' = [db EXCEPT !.links = st.links]
           /\ clock' = st.clock
           /\ count' = st.count
    /\ phase' = "expire_data"
    /\ UNCHANGED <<committed, polled, expire, cycles, notDb>>

\* models.session_scope, the unit of work of a cycle (spec, section 5: all of
\* a cycle's mutations are visible together or none are).  When its body
\* raises, the session is rolled back: its rows are the committed ones
\* again.  When its body ends, the session is committed: the rows of the
\* session are the committed ones.
Rollback_Kept == db

Rollback == committed

Commit(rows) == rows

\* save_links raises MultipleResultsFound: the unit of work is undone and
\* the exception leaves the service
SaveLinksRaises ==
    /\ phase = "save_links"
    /\ LET st == save_links(Session, polled.links)
       IN  /\ st.raised
           /\ clock' = st.clock
           /\ count' = st.count
    /\ db' = Rollback
    /\ phase' = "failed"
    /\ UNCHANGED <<committed, polled, expire, cycles, notDb>>

\* Lines 156-184: expire_data, the flush and the CollectorStat row, which
\* end the body of the "with" block, and the commit of the unit of work
ExpireData ==
    /\ phase = "expire_data"
    /\ LET st == expire_data(Session, expire.nodes_expire, expire.links_expire)
           stat == CollectorStat(polled.nodes, polled.links, polled.errors)
           rows == [nodes |-> st.nodes, links |-> st.links,
                    stats |-> AddStat(db.stats, stat)]
       IN  /\ db' = rows
           /\ committed' = Commit(rows)
           /\ clock' = st.clock
           /\ count' = st.count
    /\ phase' = "idle"
    /\ UNCHANGED <<polled, expire, cycles, notDb>>

NextDb ==
    \/ PollDone
    \/ SaveNodes
    \/ SaveLinks
    \/ SaveLinksRaises
    \/ ExpireData

SpecDb == InitDb /\ [][NextDb]_vars

-----------------------------------------------------------------------------
\* Properties of the reconciliation

\* The rows of db.nodes that get_db_model's three queries select
MatchBoth(node) ==
    {i \in 1..Len(db.nodes) :
        /\ db.nodes[i].wlan_mac_address = node.wlan_mac_address
        /\ db.nodes[i].name = node.node_name}

MatchHardware(node) ==
    {i \in 1..Len(db.nodes) :
        /\ db.nodes[i].wlan_mac_address = node.wlan_mac_address
        /\ db.nodes[i].status = "ACTIVE"}

MatchName(node) ==
    {i \in 1..Len(db.nodes) :
        db.nodes[i].name = node.node_name /\ db.nodes[i].status = "ACTIVE"}

Winning(node) ==
    IF MatchBoth(node) # {} THEN MatchBoth(node)
    ELSE IF MatchHardware(node) # {} THEN MatchHardware(node)
    ELSE MatchName(node)

\* C6: for a polled (mac, name), get_db_model returns the most recently seen
\* row of the first non-empty set among the rows with that mac and name, the
\* ACTIVE rows with that mac and the ACTIVE rows with that name; the other
\* ACTIVE rows of that set become INACTIVE; it returns None only when the
\* three sets are empty; the rows outside that set are left as they were.
C6_BestMatchReturned ==
    \A node \in SystemInfos :
        LET found == get_db_model(db.nodes, node)
            won == Winning(node)
        IN  /\ Len(found.nodes) = Len(db.nodes)
            /\ found.model = None <=>
                  MatchBoth(node) \cup MatchHardware(node) \cup MatchName(node) = {}
            /\ found.model # None =>
                  /\ found.model \in won
                  /\ \A i \in won \ {found.model} :
                        /\ db.nodes[i].last_seen <= db.nodes[found.model].last_seen
                        /\ found.nodes[i] = [db.nodes[i] EXCEPT !.status = "INACTIVE"]
                  /\ found.nodes[found.model] = db.nodes[found.model]
            /\ \A i \in 1..Len(db.nodes) : i \notin won => found.nodes[i] = db.nodes[i]

\* C6's case: save_nodes has run and a row that was ACTIVE at the last commit
\* was demoted, because a polled node matched it and a newer row
C6_Witness ==
    /\ phase = "save_links"
    /\ \E i \in 1..Len(committed.nodes) :
          /\ committed.nodes[i].status = "ACTIVE"
          /\ db.nodes[i].status = "INACTIVE"
          /\ \E j \in 1..Len(db.nodes) :
                /\ j # i
                /\ db.nodes[j].name = db.nodes[i].name
                /\ db.nodes[j].last_seen > db.nodes[i].last_seen

\* The ACTIVE rows a link's end can resolve to
ActiveAt(ip) ==
    {i \in 1..Len(db.nodes) :
        db.nodes[i].wlan_ip = ip /\ db.nodes[i].status = "ACTIVE"}

Unresolved(link) == ActiveAt(link.source) = {} \/ ActiveAt(link.destination) = {}

\* C7: save_links creates or updates a link row only when both its source and
\* its destination resolve to an ACTIVE node; for each polled link with an end
\* that does not resolve, no row is created or changed and the counter
\* "links: errors" goes up by exactly one.
C7_UnresolvedCounted ==
    phase = "save_links" =>
        LET done == save_links(Session, polled.links)
            touched == done.links \ Downgrade(db.links)
        IN  /\ \A l \in touched :
                  \E k \in 1..Len(polled.links) :
                      /\ l.source \in ActiveAt(polled.links[k].source)
                      /\ l.destination \in ActiveAt(polled.links[k].destination)
            /\ done.count["links: errors"] - count["links: errors"] =
                  Cardinality({k \in 1..Len(polled.links) : Unresolved(polled.links[k])})

\* C8: at the end of every cycle, every link row has a source node and a
\* destination node that are both ACTIVE.
C8_LinkEndsActive ==
    phase = "idle" =>
        \A l \in db.links :
            /\ db.nodes[l.source].status = "ACTIVE"
            /\ db.nodes[l.destination].status = "ACTIVE"

\* The step that commits a cycle
Commits == phase = "expire_data" /\ phase' = "idle"

\* C17: the node, link and expiry mutations of a cycle and its statistics
\* entry become visible together or not at all: when a step of the
\* reconciliation fails the persisted store is what it was at the start of
\* the cycle, with no new statistics entry; a committed cycle appends exactly
\* one statistics entry, with the node, link and error counts of that cycle's
\* topology result
C17_CycleCommitsTogether ==
    /\ [](phase \in {"idle", "failed"} => db = committed)
    /\ [][/\ committed' # committed => Commits
          /\ phase' = "failed" => db' = committed /\ committed' = committed
          /\ Commits =>
                /\ committed' = db'
                /\ committed'.stats.rows = committed.stats.rows + 1
                /\ committed'.stats.newest =
                      <<[node_count |-> Len(polled.nodes),
                         link_count |-> Len(polled.links),
                         error_count |-> Len(polled.errors)]>>]_vars

\* C17's case: with an earlier cycle committed, a cycle fails after
\* save_nodes has added or updated rows, and the store and its statistics
\* are those of the earlier cycle
C17_Witness ==
    /\ phase = "failed"
    /\ committed.stats.rows = 1
    /\ count["nodes: added"] + count["nodes: updated"] > 0
    /\ db = committed

\* The (source, destination) of a link row
LinkKey(l) == <<l.source, l.destination>>

\* The rows save_links creates or updates for the polled links: those whose
\* two ends each resolve to an ACTIVE node
Upserted ==
    {<<s, d>> \in (1..Len(db.nodes)) \X (1..Len(db.nodes)) :
        \E k \in 1..Len(polled.links) :
            /\ ActiveAt(polled.links[k].source) = {s}
            /\ ActiveAt(polled.links[k].destination) = {d}}

\* C22: at the end of save_links the links with status CURRENT are exactly
\* the links created or updated in this cycle: a link that was CURRENT before
\* and was not upserted is RECENT, a link that was RECENT or INACTIVE and was
\* not upserted has kept its status, and nothing else of those rows changed.
C22_CurrentAreUpserted ==
    [][(phase = "save_links" /\ phase' = "expire_data") =>
          /\ {LinkKey(l) : l \in {x \in db'.links : x.status = "CURRENT"}} = Upserted
          /\ \A l \in db'.links :
                LinkKey(l) \in Upserted => l.last_seen >= clock /\ l.last_seen < clock'
          /\ \A l \in db.links :
                LinkKey(l) \notin Upserted =>
                    [l EXCEPT !.status = IF @ = "CURRENT" THEN "RECENT" ELSE @]
                        \in db'.links
          /\ \A l, m \in db'.links : LinkKey(l) = LinkKey(m) => l = m
          /\ \A l \in db'.links :
                LinkKey(l) \notin Upserted => \E old \in db.links : LinkKey(old) = LinkKey(l)
      ]_vars

\* C22's case: save_links has ended with a link upserted in this cycle, a
\* link that was CURRENT and was not polled again, which it made RECENT, and
\* a link that was RECENT or INACTIVE and was not polled again, which it
\* left as it was
C22_Witness ==
    /\ phase = "expire_data"
    /\ \E l \in db.links : l.status = "CURRENT" /\ LinkKey(l) \in Upserted
    /\ \E l \in db.links :
          /\ l.status = "RECENT"
          /\ LinkKey(l) \notin Upserted
          /\ [l EXCEPT !.status = "CURRENT"] \in committed.links
    /\ \E l \in db.links :
          /\ l.status \in {"RECENT", "INACTIVE"}
          /\ LinkKey(l) \notin Upserted
          /\ l \in committed.links

\* The rows whose last_seen was set in the cycle that is running
NodesSeenThisCycle ==
    {i \in 1..Len(db.nodes) :
        i > Len(committed.nodes) \/ db.nodes[i].last_seen # committed.nodes[i].last_seen}

LinksSeenThisCycle ==
    {l \in db.links :
        \A old \in committed.links :
            LinkKey(old) = LinkKey(l) => old.last_seen # l.last_seen}

\* A row is older than a window of `days` days at the time of the sweep
OlderThan(row, days) == row.last_seen < clock - days * TicksPerDay

\* C23: the expiry sweep runs once in a cycle, after save_nodes and
\* save_links; it changes nothing but RECENT links older than the link
\* window and ACTIVE nodes older than the node window, which become INACTIVE;
\* with windows of a day or more it expires no node or link whose last_seen
\* was set in this cycle, and it never changes a CURRENT link.
C23_SweepOnceAfterSaves ==
    /\ [][/\ phase' = "save_links" /\ phase # phase' => phase = "save_nodes"
          /\ phase' = "expire_data" /\ phase # phase' => phase = "save_links"
          /\ phase = "expire_data" /\ phase # phase' => phase' = "idle"
          /\ phase # "expire_data" =>
                /\ count'["expired: nodes"] = 0 \/ UNCHANGED count
                /\ count'["expired: links"] = 0 \/ UNCHANGED count]_vars
    /\ [][Commits =>
          /\ Len(db'.nodes) = Len(db.nodes)
          /\ \A i \in 1..Len(db.nodes) :
                db'.nodes[i] =
                    IF /\ db.nodes[i].status = "ACTIVE"
                       /\ OlderThan(db.nodes[i], expire.nodes_expire)
                    THEN [db.nodes[i] EXCEPT !.status = "INACTIVE"]
                    ELSE db.nodes[i]
          /\ db'.links =
                {IF l.status = "RECENT" /\ OlderThan(l, expire.links_expire)
                 THEN [l EXCEPT !.status = "INACTIVE"]
                 ELSE l : l \in db.links}
          /\ \A i \in NodesSeenThisCycle : db'.nodes[i] = db.nodes[i]
          /\ \A l \in LinksSeenThisCycle : l \in db'.links
          /\ \A l \in db.links : l.status = "CURRENT" => l \in db'.links]_vars

\* C23's case: a day after the cycle before, the sweep made a node and a link
\* INACTIVE and left a node and a link seen in this cycle as they were
C23_Witness ==
    /\ phase = "idle"
    /\ cycles = 2
    /\ count["expired: nodes"] > 0
    /\ count["expired: links"] > 0
    /\ \E l \in db.links : l.status = "INACTIVE"
    /\ \E l \in db.links : l.status = "CURRENT"
    /\ \E i \in 1..Len(db.nodes) :
          db.nodes[i].status = "ACTIVE" /\ db.nodes[i].last_seen >= TicksPerDay

\* The identity key of a Node row
NodeKey(row) == <<row.wlan_mac_address, row.name>>

UniqueKeys(nodes) ==
    \A i, j \in 1..Len(nodes) : i # j => NodeKey(nodes[i]) # NodeKey(nodes[j])

\* C26: from an empty store, after any sequence of cycles no two Node rows
\* have the same (wlan_mac_address, name): a row is created only when no row
\* of any status has the polled pair, and the update of a row matched by MAC
\* only or by name only gives it a pair that no other row has.
C26_NodeKeysUnique ==
    /\ UniqueKeys(db.nodes)
    /\ \A node \in SystemInfos :
          LET saved == SaveNode([nodes |-> db.nodes, clock |-> clock, count |-> count],
                                node)
          IN  /\ UniqueKeys(saved.nodes)
              /\ Len(saved.nodes) > Len(db.nodes) => MatchBoth(node) = {}
              /\ Cardinality({i \in 1..Len(saved.nodes) :
                                 NodeKey(saved.nodes[i])
                                     = <<node.wlan_mac_address, node.node_name>>}) = 1

\* C26's case: save_nodes renamed a row it matched by MAC only and changed
\* the MAC of a row it matched by name only, in a store of two rows or more
C26_Witness ==
    /\ phase = "save_links"
    /\ \E i \in 1..Len(committed.nodes) :
          /\ db.nodes[i].wlan_mac_address = committed.nodes[i].wlan_mac_address
          /\ db.nodes[i].name # committed.nodes[i].name
    /\ \E i \in 1..Len(committed.nodes) :
          /\ db.nodes[i].wlan_mac_address # committed.nodes[i].wlan_mac_address
          /\ db.nodes[i].name = committed.nodes[i].name
    /\ Len(db.nodes) >= 2

\* C27: when save_nodes has processed the node list of a cycle, every polled
\* node has a row with its MAC address and its name, ACTIVE and with a
\* last_seen of this cycle, also when two polled nodes share a MAC address or
\* a name: a later node of the list does not overwrite or demote the row of
\* an earlier one.
C27_EveryPolledNodeSaved ==
    phase = "save_links" =>
        \A k \in 1..Len(polled.nodes) :
            \E i \in NodesSeenThisCycle :
                /\ db.nodes[i].wlan_mac_address = polled.nodes[k].wlan_mac_address
                /\ db.nodes[i].name = polled.nodes[k].node_name
                /\ db.nodes[i].status = "ACTIVE"

\* C28: whenever save_links resolves an end of a link, at most one ACTIVE
\* node has the address as its wlan_ip: the lookup gives no node or one node
\* and save_links does not fail on an ambiguous match, after any sequence of
\* cycles.
C28_EndpointUnambiguous ==
    phase = "save_links" =>
        /\ \A k \in 1..Len(polled.links) :
              /\ Cardinality(ActiveAt(polled.links[k].source)) <= 1
              /\ Cardinality(ActiveAt(polled.links[k].destination)) <= 1
              /\ NodeByIp(db.nodes, polled.links[k].source) # MultipleResultsFound
              /\ NodeByIp(db.nodes, polled.links[k].destination) # MultipleResultsFound
        /\ ~save_links(Session, polled.links).raised

-----------------------------------------------------------------------------
\* Poller._poll_nodes and Poller._poll_node: one task per address drawn from
\* the node sequence, all on one ClientSession whose TCPConnector admits at
\* most max_connections requests at a time.
\* A task is [ip_address, pc, response, handler, error, exception, result];
\* its pc is "created" (not run yet), "queued" (waits for a connection),
\* "fetching" (holds one), "lookup" (in lookup_name), "done" (returned a
\* NodeResult) or "faulted" (ended with the exception).

MaxAddresses == 2

MaxConnections == 2

\* What session.get() and resp.read() can end with: an exception, or a
\* status and a body.  Of the body the model keeps whether it is valid JSON,
\* whether its brackets nest deeper than the interpreter's recursion limit
\* before the decoder has found it complete or invalid, and whether
\* load_system_info accepts the decoded value.
Response(fault, status, is_json, deep, decodes) ==
    [fault |-> fault, status |-> status, is_json |-> is_json, deep |-> deep,
     decodes |-> decodes]

NoResponse == Response("", 0, FALSE, FALSE, FALSE)

\* ServerTimeoutError is both an asyncio.TimeoutError and a ClientError;
\* CancelledError is thrown into a task that is cancelled while it awaits
Faults == {"ServerTimeoutError", "TimeoutError", "ClientConnectorError",
           "RuntimeError", "CancelledError"}

Responses ==
    {Response(f, 0, FALSE, FALSE, FALSE) : f \in Faults}
    \cup {Response("", 200, TRUE, FALSE, TRUE), Response("", 200, TRUE, FALSE, FALSE),
          Response("", 200, FALSE, FALSE, FALSE),
          Response("", 200, FALSE, TRUE, FALSE), Response("", 200, TRUE, TRUE, TRUE),
          Response("", 404, TRUE, FALSE, TRUE), Response("", 404, FALSE, FALSE, FALSE),
          Response("", 404, FALSE, TRUE, FALSE)}

\* isinstance(exc, Exception): asyncio.CancelledError is a BaseException
\* that is not an Exception (Python 3.8 and later)
IsException(exc) == exc # "CancelledError"

\* isinstance(exc, asyncio.TimeoutError) and isinstance(exc, aiohttp.ClientError)
IsTimeoutError(exc) == exc \in {"ServerTimeoutError", "TimeoutError"}

IsClientError(exc) == exc \in {"ServerTimeoutError", "ClientConnectorError"}

\* The error _handle_connection_error puts in its NodeResult
_handle_connection_error(exc) ==
    IF IsTimeoutError(exc) THEN "TIMEOUT_ERROR"
    ELSE IF IsClientError(exc) THEN "CONNECTION_ERROR"
    ELSE "CONNECTION_ERROR"

\* The error _handle_response_error puts in its NodeResult ("" is None)
_handle_response_error(error) ==
    IF error = "HTTP_ERROR" THEN "HTTP_ERROR"
    ELSE IF error = "INVALID_RESPONSE" THEN "INVALID_RESPONSE"
    ELSE IF error = "PARSE_ERROR" THEN "PARSE_ERROR"
    ELSE ""

\* What json.loads(response_text) raises ("" when it returns the value): the
\* decoder recurses for every bracket, so text nested beyond the recursion
\* limit ends it with RecursionError, which is not a JSONDecodeError
json_loads(response) ==
    IF response.deep THEN "RecursionError"
    ELSE IF ~response.is_json THEN "JSONDecodeError"
    ELSE ""

\* _poll_node up to its first return: the handler it calls and with what
\* ("" when it returns the node's SystemInfo), or the exception that leaves
\* it: "except Exception" (line 368) lets a CancelledError pass, and "except
\* json.JSONDecodeError" (line 379) whatever else json.loads raises
_poll_node(response) ==
    IF response.fault # "" /\ ~IsException(response.fault)
    THEN [handler |-> "", error |-> "", raised |-> response.fault]
    ELSE IF response.fault # ""
    THEN [handler |-> "connection", error |-> _handle_connection_error(response.fault),
          raised |-> ""]
    ELSE IF response.status # 200
    THEN [handler |-> "response", error |-> _handle_response_error("HTTP_ERROR"),
          raised |-> ""]
    ELSE IF json_loads(response) = "JSONDecodeError"
    THEN [handler |-> "response", error |-> _handle_response_error("INVALID_RESPONSE"),
          raised |-> ""]
    ELSE IF json_loads(response) # ""
    THEN [handler |-> "", error |-> "", raised |-> json_loads(response)]
    ELSE IF ~response.decodes
    THEN [handler |-> "response", error |-> _handle_response_error("PARSE_ERROR"),
          raised |-> ""]
    ELSE [handler |-> "", error |-> "", raised |-> ""]

NoResult == FailedResult(NoAddr, "", "")

Task(ip) ==
    [ip_address |-> ip, pc |-> "created", response |-> NoResponse,
     handler |-> "", error |-> "", exception |-> "", result |-> NoResult]

\* The requests that hold a connection of the connector
InFlight == {i \in 1..Len(tasks) : tasks[i].pc = "fetching"}

\* A connector that admits every request
Admits_Unlimited(limit, in_flight) == TRUE

\* aiohttp.TCPConnector(limit=...): a request gets a connection when fewer
\* than `limit` are in use; limit 0 is no limit
Admits(limit, in_flight) == limit = 0 \/ in_flight < limit

\* An exception object, where gather() returns one in place of a result
ExceptionObject(exc) == [exception |-> exc]

\* Lines 326-332: the results of the tasks in the order of creation,
\* without those that are instances of Exception
RECURSIVE Gathered(_)
Gathered(ts) ==
    IF ts = <<>> THEN <<>>
    ELSE IF Head(ts).pc # "faulted" THEN <<Head(ts).result>> \o Gathered(Tail(ts))
    ELSE IF IsException(Head(ts).exception) THEN Gathered(Tail(ts))
    ELSE <<ExceptionObject(Head(ts).exception)>> \o Gathered(Tail(ts))

\* _poll_nodes is called with a limit and a node sequence that will yield
\* these addresses (OlsrData yields an address once)
InitPoll ==
    /\ \E limit \in 0..MaxConnections, n \in 0..MaxAddresses :
          poll = [max_connections |-> limit,
                  addresses |-> [i \in 1..n |-> Addr(10, i)],
                  pc |-> "drawing", session |-> "open", node_results |-> <<>>]
    /\ tasks = <<>>
    /\ stream = <<>>
    /\ StreamStart
    /\ ServiceStart
    /\ cfg = DefaultCfg
    /\ MergeStart
    /\ DbStart
    /\ expire = DefaultExpire

\* "async for address in addresses" gets an address: create_task
CreateTask ==
    /\ poll.pc = "drawing"
    /\ Len(tasks) < Len(poll.addresses)
    /\ tasks' = Append(tasks, Task(poll.addresses[Len(tasks) + 1]))
    /\ UNCHANGED <<poll, notPoll>>

\* The node sequence ends: _poll_nodes goes on to gather()
InputEnds ==
    /\ poll.pc = "drawing"
    /\ Len(tasks) = Len(poll.addresses)
    /\ poll' = [poll EXCEPT !.pc = "gathering"]
    /\ UNCHANGED <<tasks, notPoll>>

\* The node sequence raises: the exception leaves "async with", which closes
\* the session, and then _poll_nodes. The tasks are tasks of the event loop
\* and none of them runs in this step.
InputRaises ==
    /\ poll.pc = "drawing"
    /\ poll' = [poll EXCEPT !.pc = "raised", !.session = "closed"]
    /\ UNCHANGED <<tasks, notPoll>>

\* A task runs for the first time: session.get() asks for a connection, and
\* raises RuntimeError("Session is closed") when the session was closed
\* before the task ran
Start(i) ==
    /\ i \in 1..Len(tasks)
    /\ tasks[i].pc = "created"
    /\ tasks' = [tasks EXCEPT ![i] =
                    IF poll.session = "closed"
                    THEN [@ EXCEPT !.pc = "lookup",
                                   !.response = Response("RuntimeError", 0, FALSE, FALSE, FALSE),
                                   !.handler = "connection",
                                   !.error = _handle_connection_error("RuntimeError")]
                    ELSE IF Admits(poll.max_connections, Cardinality(InFlight))
                    THEN [@ EXCEPT !.pc = "fetching"]
                    ELSE [@ EXCEPT !.pc = "queued"]]
    /\ UNCHANGED <<poll, notPoll>>

\* A request that waits for a connection is woken after the session was
\* closed: the closed connector gives it no connection and raises a
\* ClientError, which _poll_node hands to _handle_connection_error
ConnectorClosed(i) ==
    /\ i \in 1..Len(tasks)
    /\ tasks[i].pc = "queued"
    /\ poll.session = "closed"
    /\ tasks' = [tasks EXCEPT ![i] =
                    [@ EXCEPT !.pc = "lookup",
                              !.response = Response("ClientConnectorError", 0, FALSE, FALSE, FALSE),
                              !.handler = "connection",
                              !.error = _handle_connection_error("ClientConnectorError")]]
    /\ UNCHANGED <<poll, notPoll>>

\* A waiting request gets a connection that was released
Admit(i) ==
    /\ i \in 1..Len(tasks)
    /\ tasks[i].pc = "queued"
    /\ poll.session = "open"
    /\ Admits(poll.max_connections, Cardinality(InFlight))
    /\ tasks' = [tasks EXCEPT ![i].pc = "fetching"]
    /\ UNCHANGED <<poll, notPoll>>

\* The request ends and gives its connection back: _poll_node returns the
\* node's result, calls a handler, which calls lookup_name, or ends with the
\* exception that none of its "except" clauses takes. After the session was
\* closed the task is run with what its request had come to: the response it
\* had read, or the fault of the closed connection.
Respond(i) ==
    /\ i \in 1..Len(tasks)
    /\ tasks[i].pc = "fetching"
    /\ \E response \in Responses :
          LET r == _poll_node(response)
          IN  tasks' = [tasks EXCEPT ![i] =
                  IF r.raised # ""
                  THEN [@ EXCEPT !.pc = "faulted", !.response = response,
                                 !.exception = r.raised]
                  ELSE IF r.handler = ""
                  THEN [@ EXCEPT !.pc = "done", !.response = response,
                                 !.result = PolledResult(tasks[i].ip_address,
                                                         <<1, 7>>, <<>>)]
                  ELSE [@ EXCEPT !.pc = "lookup", !.response = response,
                                 !.handler = r.handler, !.error = r.error]]
    /\ UNCHANGED <<poll, notPoll>>

\* lookup_name returns a name: the handler returns its NodeResult
LookupReturns(i) ==
    /\ i \in 1..Len(tasks)
    /\ tasks[i].pc = "lookup"
    /\ tasks' = [tasks EXCEPT ![i] =
                    [@ EXCEPT !.pc = "done",
                              !.result = FailedResult(tasks[i].ip_address,
                                             ResolvedName(tasks[i].ip_address),
                                             tasks[i].error)]]
    /\ UNCHANGED <<poll, notPoll>>

\* What lookup_name can raise: an Exception (the resolver fails), or the
\* CancelledError of a lookup that is cancelled
LookupFaults == {"OSError", "CancelledError"}

\* lookup_name raises: nothing in the handler or in _poll_node catches it,
\* and the exception is the task's outcome
LookupRaises(i) ==
    /\ i \in 1..Len(tasks)
    /\ tasks[i].pc = "lookup"
    /\ \E exc \in LookupFaults :
          tasks' = [tasks EXCEPT ![i] = [@ EXCEPT !.pc = "faulted", !.exception = exc]]
    /\ UNCHANGED <<poll, notPoll>>

\* gather() returns when every task has ended; _poll_nodes leaves
\* "async with", which closes the session, and returns node_results
Gather ==
    /\ poll.pc = "gathering"
    /\ \A i \in 1..Len(tasks) : tasks[i].pc \in {"done", "faulted"}
    /\ poll' = [poll EXCEPT !.pc = "returned", !.session = "closed",
                            !.node_results = Gathered(tasks)]
    /\ UNCHANGED <<tasks, notPoll>>

NextPoll ==
    \/ CreateTask
    \/ InputEnds
    \/ InputRaises
    \/ \E i \in 1..MaxAddresses :
          \/ Start(i)
          \/ Admit(i)
          \/ ConnectorClosed(i)
          \/ Respond(i)
          \/ LookupReturns(i)
          \/ LookupRaises(i)
    \/ Gather

SpecPoll == InitPoll /\ [][NextPoll]_vars

\* While _poll_nodes runs, the event loop runs every task that is ready, a
\* request ends (with a response, with a timeout: sock_connect and sock_read
\* are set, or with another fault), and lookup_name ends.  Once the node
\* sequence has raised, nothing awaits the tasks: whether the loop runs them
\* again is not the poller's to say, and no step of a task is required.
Running == poll.pc # "raised"

SpecPollFair ==
    /\ InitPoll
    /\ [][NextPoll]_vars
    /\ WF_vars(Gather)
    /\ \A i \in 1..MaxAddresses :
          /\ WF_vars(Running /\ Start(i))
          /\ WF_vars(Running /\ Admit(i))
          /\ WF_vars(Running /\ Respond(i))
          /\ WF_vars(Running /\ (LookupReturns(i) \/ LookupRaises(i)))

-----------------------------------------------------------------------------
\* Properties of the polling

\* Every address drawn from the node sequence has its task, in the order
\* drawn, and none is dropped for the limit
EveryAddressHasItsTask ==
    /\ Len(tasks) <= Len(poll.addresses)
    /\ \A i \in 1..Len(tasks) : tasks[i].ip_address = poll.addresses[i]
    /\ poll.pc \in {"gathering", "returned"} => Len(tasks) = Len(poll.addresses)

Queued(i) == i \in 1..Len(tasks) /\ tasks[i].pc = "queued"

Fetching(i) == i \in 1..Len(tasks) /\ tasks[i].pc = "fetching"

\* C12, as claimed: the requests that hold a connection are never more than
\* max_connections, whatever the limit is; every request that has to wait
\* gets a connection in the end, however the poll call ends; every address
\* drawn from the node sequence has its task.
C12_EveryWaitingFetchAdmitted ==
    /\ [](Cardinality(InFlight) <= poll.max_connections)
    /\ []EveryAddressHasItsTask
    /\ \A i \in 1..MaxAddresses : Queued(i) ~> Fetching(i)

\* C12: with a limit of at least 1, the requests that hold a connection are
\* never more than max_connections; a request that has to wait gets a
\* connection in the end, unless the node sequence raises, which ends the
\* poll call and closes the session; every address drawn from the node
\* sequence has its task, in the order drawn, and none is dropped for the
\* limit.
C12_AtMostLimitInFlight ==
    /\ [](poll.max_connections >= 1 => Cardinality(InFlight) <= poll.max_connections)
    /\ []EveryAddressHasItsTask
    /\ \A i \in 1..MaxAddresses : Queued(i) ~> (Fetching(i) \/ poll.pc = "raised")

\* C12's case: with every connection in use, the request of the last address
\* drawn waits
C12_Witness ==
    /\ poll.pc = "gathering"
    /\ poll.max_connections >= 1
    /\ Cardinality(InFlight) = poll.max_connections
    /\ tasks[Len(tasks)].pc = "queued"

\* The tasks whose request has ended, with the response it ended with
Answered == {i \in 1..Len(tasks) : tasks[i].response # NoResponse}

\* What a task has made of its response: the error it gave to a handler,
\* "SUCCESS" when it returned the node's SystemInfo, "" when it did neither
Classified(i) ==
    IF tasks[i].handler # "" THEN tasks[i].error
    ELSE IF tasks[i].pc = "done" /\ tasks[i].result.has_info THEN "SUCCESS"
    ELSE ""

\* C13: a fetch is classified by the first rule that applies: a fault of the
\* transport is TIMEOUT_ERROR when it is a timeout (whatever else it is too)
\* and CONNECTION_ERROR otherwise; else a status other than 200 is
\* HTTP_ERROR; else a body that is not valid JSON is INVALID_RESPONSE; else
\* JSON that does not decode is PARSE_ERROR; else the fetch is a success.  (A
\* cancelled request is not a fetch that ended.)
C13_FirstRuleClassifies ==
    \A i \in Answered :
        LET response == tasks[i].response
            transport == response.fault # ""
        IN  response.fault # "CancelledError" =>
            /\ (transport /\ IsTimeoutError(response.fault))
                  => Classified(i) = "TIMEOUT_ERROR"
            /\ (transport /\ ~IsTimeoutError(response.fault))
                  => Classified(i) = "CONNECTION_ERROR"
            /\ (~transport /\ response.status # 200)
                  => Classified(i) = "HTTP_ERROR"
            /\ (~transport /\ response.status = 200 /\ ~response.is_json)
                  => Classified(i) = "INVALID_RESPONSE"
            /\ (~transport /\ response.status = 200 /\ response.is_json
                    /\ ~response.decodes)
                  => Classified(i) = "PARSE_ERROR"
            /\ (~transport /\ response.status = 200 /\ response.is_json
                    /\ response.decodes)
                  => Classified(i) = "SUCCESS"
            /\ tasks[i].pc = "done" =>
                  tasks[i].result.error
                     = IF Classified(i) = "SUCCESS" THEN "" ELSE Classified(i)

\* A NodeResult, and not an exception object
IsNodeResult(r) == "ip_address" \in DOMAIN r

\* C14: every outcome the poller returns is a NodeResult with exactly one of
\* system_info and error; the merge puts each in the node list (a success)
\* or in the error list (a failure) and drops none: nodes plus errors are
\* the results.
C14_ExactlyOneOfInfoAndError ==
    /\ \A i \in 1..Len(tasks) :
          tasks[i].pc = "done" =>
              (tasks[i].result.has_info <=> tasks[i].result.error = "")
    /\ poll.pc = "returned" =>
          /\ \A k \in 1..Len(poll.node_results) :
                /\ IsNodeResult(poll.node_results[k])
                /\ poll.node_results[k].has_info <=> poll.node_results[k].error = ""
          /\ LET results == poll.node_results
                 merged == get_network_info(results, olsr_links)
                 successes == {k \in 1..Len(results) : results[k].has_info}
                 failures == {k \in 1..Len(results) : results[k].error # ""}
             IN  /\ successes \cap failures = {}
                 /\ Len(merged.nodes) = Cardinality(successes)
                 /\ Len(merged.errors) = Cardinality(failures)
                 /\ Len(merged.nodes) + Len(merged.errors) = Len(results)
                 /\ \A k \in 1..Len(merged.errors) : merged.errors[k].error # ""

\* The tasks that ended with a NodeResult, in the order of creation
Finished == SelectSeq([i \in 1..Len(tasks) |-> i], LAMBDA i : tasks[i].pc = "done")

\* C15: when a task ends with an unexpected fault (lookup_name raises in it),
\* the poll still returns, its results are exactly the outcomes of the other
\* tasks, one per address and none for the address of the fault, and the
\* fault changes no other task.
C15_FaultDropsOnlyItsTask ==
    /\ [](poll.pc = "returned" =>
             /\ Len(poll.node_results) = Len(Finished)
             /\ \A k \in 1..Len(Finished) :
                   /\ poll.node_results[k] = tasks[Finished[k]].result
                   /\ poll.node_results[k].ip_address = poll.addresses[Finished[k]])
    /\ []((poll.pc = "gathering"
             /\ \A i \in 1..Len(tasks) : tasks[i].pc \in {"done", "faulted"})
          => ENABLED Gather)
    /\ [][\A i \in 1..Len(tasks) :
             (tasks[i].pc # "faulted" /\ tasks'[i].pc = "faulted")
                => /\ poll' = poll
                   /\ \A j \in 1..Len(tasks) : j # i => tasks'[j] = tasks[j]]_vars

====
